---- MODULE Spec2Model ----
(***************************************************************************)
(* Article-extraction service: the Go scrape pipeline served by the Cloud  *)
(* Run handler (cmd/cloudrun/main.go, internal/scraper/*.go).              *)
(*                                                                         *)
(* One request is modelled from the handler's entry to its HTTP response,  *)
(* together with the goroutines FetchWithAlternatesGroup starts.  Time is  *)
(* a millisecond clock that advances to the wake-up time of the process    *)
(* that steps next; a process may only step when no other process is due   *)
(* earlier.  Error values carry their message as a sequence of text        *)
(* fragments, split so that every substring the code searches for is a     *)
(* run of whole fragments.                                                 *)
(***************************************************************************)
EXTENDS Integers, Sequences, FiniteSets, TLC

VARIABLES
    now,        \* wall clock, ms since the handler was entered
    req,        \* the request: target URL and the raw ?timeout= parameter
    pc,         \* position of the handler goroutine
    main,       \* the handler goroutine's blocking operation and contexts
    tasks,      \* errgroup goroutines of FetchWithAlternatesGroup, one per alternate
    chan,       \* resultChan: buffered values (capacity 1) and whether it is closed
    grp,        \* errgroup: derived context cancelled?, waiter goroutine position
    hist,       \* what happened so far (observations the properties read)
    response,   \* the HTTP response written by the handler
    js,         \* the Node.js handlers: the browser of a request, the watchdog, the scrape
    call,       \* a call of a function of the extraction library: its arguments
    ret         \* the value that call returned

vars == <<now, req, pc, main, tasks, chan, grp, hist, response, js, call, ret>>

-----------------------------------------------------------------------------
(* Program constants *)

HTTPBudgetMs == 18000
BrowserBudgetMs == 40000
ClientTimeoutMs == 15000
SizeLimitBytes == 6000000
MaxRetries == 2
BackoffBaseMs == 1000
BackoffCapMs == 5000
MinTimeoutMs == 1000
MaxTimeoutMs == 240000
DefaultTimeoutMs == 300000
ResultChanCap == 1

Min(a, b) == IF a <= b THEN a ELSE b
Max(a, b) == IF a >= b THEN a ELSE b

-----------------------------------------------------------------------------
(* Text: a string is a sequence of fragments *)

\* strings.ToLower / toLower on one fragment
LowerFrag(f) ==
    CASE f = "HTTP " -> "http "
      [] f = "CF_BLOCKED" -> "cf_blocked"
      [] f = "Cloudflare" -> "cloudflare"
      [] f = "CLOUDFLARE" -> "cloudflare"
      [] f = "all alternate URLs failed" -> "all alternate urls failed"
      [] f = "all URLs failed" -> "all urls failed"
      [] f = "non-HTML content-type: " -> "non-html content-type: "
      [] f = "Attention Required" -> "attention required"
      [] f = " Ray ID" -> " ray id"
      [] f = "Just a moment" -> "just a moment"
      [] f = "Why have I been blocked?" -> "why have i been blocked?"
      [] OTHER -> f

ToLower(s) == [i \in 1..Len(s) |-> LowerFrag(s[i])]

\* strings.Contains
StrContains(s, sub) ==
    \E i \in 1..(Len(s) - Len(sub) + 1) : SubSeq(s, i, i + Len(sub) - 1) = sub

\* ContainsAny (text utilities): case-insensitive on both sides
ContainsAny(s, substrings) ==
    \E k \in 1..Len(substrings) : StrContains(ToLower(s), ToLower(substrings[k]))

DigitFrag(d) ==
    CASE d = 0 -> "0" [] d = 1 -> "1" [] d = 2 -> "2" [] d = 3 -> "3" [] d = 4 -> "4"
      [] d = 5 -> "5" [] d = 6 -> "6" [] d = 7 -> "7" [] d = 8 -> "8" [] d = 9 -> "9"

\* %d of a three-digit status code
StatusDigits(n) == <<DigitFrag(n \div 100), DigitFrag((n \div 10) % 10), DigitFrag(n % 10)>>

CloudflarePatterns ==
    << <<"CF_BLOCKED">>,
       <<"cloudflare">>,
       <<"HTTP ", "4", "0", "3">>,
       <<"all alternate URLs failed">>,
       <<"attention required">>,
       <<"cloudflare", " ray id">>,
       <<"what can i do to resolve this?">>,
       <<"why have i been blocked?">>,
       <<"performance & security by ", "cloudflare">> >>

\* the "cfBlock" regular expression, an alternation of literals
CfBlockRegex ==
    << <<"attention required">>,
       <<"cloudflare", " ray id">>,
       <<"what can i do to resolve this?">>,
       <<"why have i been blocked?">>,
       <<"performance & security by ", "cloudflare">> >>

\* fmt.Errorf(html).Error(): html is used as the format string, so a verb
\* without an operand is rewritten
FmtErrorf(html) ==
    [i \in 1..Len(html) |->
        CASE html[i] = "%d" -> "%!d(MISSING)"
          [] html[i] = "%s" -> "%!s(MISSING)"
          [] html[i] = "%c" -> "%!c(MISSING)"
          [] OTHER -> html[i]]

IsCloudflareBlock(msg) == ContainsAny(msg, CloudflarePatterns)

\* HTTPClient.LooksLikeCFBlock
HTTPLooksLikeCFBlock(html) == IsCloudflareBlock(FmtErrorf(html))

\* BrowserClient.LooksLikeCFBlock
BrowserLooksLikeCFBlock(html) ==
    \E k \in 1..Len(CfBlockRegex) : StrContains(ToLower(html), CfBlockRegex[k])

-----------------------------------------------------------------------------
(* URLs: scheme://host[:port]path?query with the path a sequence of         *)
(* segments, each standing for "/" followed by the segment's text:          *)
(* <<>> is the empty path, <<"">> is "/", <<"a", "">> is "/a/".             *)

\* sort.Strings order of the query keys the inputs use
QueryKeys == <<"id", "outputType", "page">>

\* url.Values.Encode(): keys sorted, the values of one key in their order
QueryEncode(q) ==
    LET OfKey(k) == SelectSeq(q, LAMBDA p : p.k = k)
    IN  OfKey(QueryKeys[1]) \o OfKey(QueryKeys[2]) \o OfKey(QueryKeys[3])

\* strings.HasPrefix(u.Path, "/amp/")
PathHasAmpPrefix(path) == Len(path) >= 2 /\ path[1] = "amp"
\* strings.HasSuffix(u.Path, "/amp")
PathHasAmpSuffix(path) == Len(path) >= 1 /\ path[Len(path)] = "amp"
\* strings.HasSuffix(u.Path, "/")
PathEndsWithSlash(path) == Len(path) >= 1 /\ path[Len(path)] = ""
\* strings.HasPrefix(u.Hostname(), "m.")
HostHasMobilePrefix(host) == Len(host) >= 2 /\ host[1] = "m"

\* HTTPClient.GenerateAlternateURLs
GenerateAlternateURLs(u) ==
    LET ampPrefix ==
            IF ~PathHasAmpPrefix(u.path)
            THEN << [u EXCEPT !.path = <<"amp">> \o u.path] >>
            ELSE << >>
        ampSuffix ==
            IF ~PathHasAmpSuffix(u.path)
            THEN IF PathEndsWithSlash(u.path)
                 THEN << [u EXCEPT !.path = SubSeq(u.path, 1, Len(u.path) - 1) \o <<"amp">>] >>
                 ELSE << [u EXCEPT !.path = u.path \o <<"amp">>] >>
            ELSE << >>
        queryAmp ==
            << [u EXCEPT !.query = QueryEncode(u.query) \o << [k |-> "outputType", v |-> "amp"] >>] >>
        mobile ==
            IF ~HostHasMobilePrefix(u.host)
            THEN << [u EXCEPT !.host = <<"m">> \o u.host, !.port = ""] >>
            ELSE << >>
    IN  ampPrefix \o ampSuffix \o queryAmp \o mobile

NoURL == [scheme |-> "", host |-> << >>, port |-> "", path |-> << >>, query |-> << >>]

-----------------------------------------------------------------------------
(* Error values: kind is what happened, status the last HTTP status seen,   *)
(* msg the text of err.Error()                                              *)

NoErr == [kind |-> "nil", status |-> 0, msg |-> << >>]

CtxDeadlineMsg == <<"context deadline exceeded">>
CtxCanceledMsg == <<"context canceled">>

\* client.Do failed: "request failed: %w"
ErrRequestFailed(kind, cause) ==
    [kind |-> kind, status |-> 0, msg |-> <<"request failed: ", "Get url: ">> \o cause]
\* retryWithBackoff gave up: the status is not part of the message
ErrMaxRetries(status) ==
    [kind |-> "retries", status |-> status, msg |-> <<"max retries exceeded">>]
\* "HTTP %d"
ErrHTTPStatus(status) ==
    [kind |-> "status", status |-> status, msg |-> <<"HTTP ">> \o StatusDigits(status)]
\* "non-HTML content-type: %s"
ErrNonHTML(status) ==
    [kind |-> "nonhtml", status |-> status, msg |-> <<"non-HTML content-type: ", "application/json">>]
\* ctx.Err() of the errgroup context
ErrCtx(deadline) ==
    IF deadline THEN [kind |-> "deadline", status |-> 0, msg |-> CtxDeadlineMsg]
                ELSE [kind |-> "canceled", status |-> 0, msg |-> CtxCanceledMsg]
\* "failed to set up resource blocking: %w"
ErrBrowserSetup(cause) ==
    [kind |-> "setup", status |-> 0, msg |-> <<"failed to set up resource blocking: ">> \o cause]
\* "all URLs failed or were blocked by Cloudflare"
ErrAllURLsFailed ==
    [kind |-> "allurls", status |-> 0,
     msg |-> <<"all URLs failed", " or were blocked", " by ", "Cloudflare">>]

-----------------------------------------------------------------------------
(* The environment: what a server may answer and how long it takes *)

PageArticle == <<"<p>", "Body paragraph one.", "</p>">>
PageMention == <<"<p>", "Served through ", "Cloudflare", "</p>">>
PageChallenge == <<"<title>", "Just a moment", "</title>", "Cloudflare", " Ray ID">>
NoHTML == [text |-> << >>, len |-> 0, served |-> 0]

RespTransport == [kind |-> "transport", status |-> 0, isHTML |-> FALSE, page |-> << >>, size |-> 0]
RespStatus(s) == [kind |-> "http", status |-> s, isHTML |-> TRUE, page |-> << >>, size |-> 0]
RespJSON == [kind |-> "http", status |-> 200, isHTML |-> FALSE, page |-> << >>, size |-> 512]
RespPage(p, n) == [kind |-> "http", status |-> 200, isHTML |-> TRUE, page |-> p, size |-> n]

\* answers to the primary request
Responses ==
    {RespTransport, RespJSON}
    \cup {RespStatus(s) : s \in {403, 404, 406, 451, 503}}
    \cup {RespPage(p, 2048) : p \in {PageArticle, PageMention, PageChallenge}}
    \cup {RespPage(PageArticle, SizeLimitBytes + 1)}

\* answers to an alternate's request
AltResponses ==
    {RespStatus(404), RespStatus(503), RespPage(PageArticle, 2048), RespPage(PageChallenge, 2048)}

\* what a navigation ends with: an error, or the document the browser shows
NavError == [ok |-> FALSE, page |-> << >>]
NavOutcomes == {NavError} \cup {[ok |-> TRUE, page |-> p] : p \in {PageArticle, PageMention, PageChallenge}}

\* how long a request or a navigation takes
Latencies == {100, 10000}
\* how long an alternate's request takes
AltLatencies == {100, 300}
\* how long the browser needs to start
LaunchLatencies == {100}

InputURLs ==
    { [scheme |-> "https", host |-> <<"m", "example", "com">>, port |-> "",
       path |-> <<"amp", "story">>, query |-> << >>],
      [scheme |-> "https", host |-> <<"m", "example", "com">>, port |-> "",
       path |-> <<"amp", "story", "amp">>, query |-> << [k |-> "id", v |-> "7"] >>] }

\* url.Parse fails on a host name with a character that is not allowed in
\* one; it accepts every scheme, and no scheme at all
URLParseFails(u) == \E i \in 1..Len(u.host) : u.host[i] = "exa mple"

\* url parameters that are not http or https URLs: an ftp URL, and a host
\* name with a space in it
OtherURLs ==
    { [scheme |-> "ftp", host |-> <<"m", "example", "com">>, port |-> "",
       path |-> <<"amp", "story", "amp">>, query |-> << >>],
      [scheme |-> "https", host |-> <<"m", "exa mple", "com">>, port |-> "",
       path |-> <<"amp", "story", "amp">>, query |-> << >>] }

\* the raw ?timeout= parameter; 0 stands for an absent parameter
TimeoutParams == {500, 30000}

-----------------------------------------------------------------------------
(* FetchHTML and retryWithBackoff *)

\* delay computed by retryWithBackoff for a given retryCount
BackoffDelay(retryCount) ==
    LET delay == BackoffBaseMs * (2 ^ retryCount)
    IN  IF delay > BackoffCapMs THEN BackoffCapMs ELSE delay

\* a faulty retryWithBackoff that allows one retry too many (retryCount >
\* MaxRetries): C9 must not hold for it
RetryWithBackoffOffByOne(status, retryCount) ==
    IF retryCount > MaxRetries
    THEN [t |-> "err", err |-> ErrMaxRetries(status), html |-> NoHTML, delay |-> 0]
    ELSE [t |-> "sleep", err |-> NoErr, html |-> NoHTML, delay |-> BackoffDelay(retryCount)]

\* retryWithBackoff: give up, or sleep and call FetchHTML again
RetryWithBackoff(status, retryCount) ==
    IF retryCount >= MaxRetries
    THEN [t |-> "err", err |-> ErrMaxRetries(status), html |-> NoHTML, delay |-> 0]
    ELSE [t |-> "sleep", err |-> NoErr, html |-> NoHTML, delay |-> BackoffDelay(retryCount)]

\* io.ReadAll(io.LimitReader(resp.Body, SizeLimitBytes))
ReadLimited(r) == [text |-> r.page, len |-> Min(r.size, SizeLimitBytes), served |-> r.size]

\* FetchHTML once client.Do has returned the response r
FetchHTMLResult(r, retryCount) ==
    IF r.kind = "transport"
    THEN [t |-> "err", err |-> ErrRequestFailed("transport", <<"connection refused">>),
          html |-> NoHTML, delay |-> 0]
    ELSE IF r.status >= 500 THEN RetryWithBackoff(r.status, retryCount)
    ELSE IF r.status >= 400
    THEN [t |-> "err", err |-> ErrHTTPStatus(r.status), html |-> NoHTML, delay |-> 0]
    ELSE IF ~r.isHTML
    THEN [t |-> "err", err |-> ErrNonHTML(r.status), html |-> NoHTML, delay |-> 0]
    ELSE [t |-> "ok", err |-> NoErr, html |-> ReadLimited(r), delay |-> 0]

\* client.Do returned an error because the context ended or Client.Timeout passed
FetchHTMLAborted(canceled) ==
    [t |-> "err",
     err |-> ErrRequestFailed(IF canceled THEN "canceled" ELSE "deadline",
                              IF canceled THEN CtxCanceledMsg ELSE CtxDeadlineMsg),
     html |-> NoHTML, delay |-> 0]

\* a blocking call started at t that needs lat ms and is cut at limit
BeginOp(t, lat, limit) ==
    IF t + lat < limit
    THEN [due |-> t + lat, timedOut |-> FALSE]
    ELSE [due |-> Max(t, limit), timedOut |-> TRUE]

\* client.Do under ctx: Client.Timeout also bounds the request
BeginRequest(t, lat, ctxDeadline) == BeginOp(t, lat, Min(t + ClientTimeoutMs, ctxDeadline))

\* a faulty guard that leaves out the challenge check (err == nil alone): C4
\* must not hold for it
FetchAcceptedUnchecked(out) == out.t = "ok"

\* the guard of FetchWithAlternatesGroup: err == nil && !h.LooksLikeCFBlock(html)
FetchAccepted(out) == out.t = "ok" /\ ~HTTPLooksLikeCFBlock(out.html.text)

\* the guard of FetchWithAlternatesGroup before the alternates: fall through
\* unless the error text names none of the listed statuses
TriesAlternates(out) ==
    \/ out.t = "ok"
    \/ StrContains(out.err.msg, <<"HTTP ", "4", "0", "3">>)
    \/ StrContains(out.err.msg, <<"HTTP ", "4", "0", "6">>)
    \/ StrContains(out.err.msg, <<"HTTP ", "4", "5", "1">>)
    \/ StrContains(out.err.msg, <<"HTTP ", "5">>)

\* the guard of scrapeWithOptions: err == nil && !b.LooksLikeCFBlock(html)
NavAccepted(o) == o.ok /\ ~BrowserLooksLikeCFBlock(o.page)

-----------------------------------------------------------------------------
(* Scraper.isCloudflareBlock and its private string helpers *)

RECURSIVE CharLen(_)
CharLen(s) == IF s = << >> THEN 0 ELSE Len(Head(s)) + CharLen(Tail(s))

\* indexOf(s, substr) >= 0: both sides lower-cased
IndexOfFound(s, substr) == StrContains(ToLower(s), ToLower(substr))

\* contains(s, substr)
ScraperContains(s, substr) ==
    /\ CharLen(s) >= CharLen(substr)
    /\ \/ s = substr
       \/ /\ CharLen(s) > CharLen(substr)
          /\ \/ (Len(s) >= Len(substr) /\ SubSeq(s, 1, Len(substr)) = substr)
             \/ (Len(s) >= Len(substr) /\ SubSeq(s, Len(s) - Len(substr) + 1, Len(s)) = substr)
             \/ IndexOfFound(s, substr)

ScraperBlockPatterns ==
    << <<"CF_BLOCKED">>, <<"cloudflare">>, <<"HTTP ", "4", "0", "3">>, <<"all alternate URLs failed">> >>

\* Scraper.isCloudflareBlock(err), err != nil
ScraperIsCloudflareBlock(err) ==
    /\ err.kind # "nil"
    /\ \E k \in 1..Len(ScraperBlockPatterns) : ScraperContains(err.msg, ScraperBlockPatterns[k])

\* the status the Cloud Run handler writes for the error ScrapeSmart returned
\* after the browser phase failed with err
StatusForFailure(err) ==
    IF ScraperIsCloudflareBlock(err) THEN 451
    ELSE IF StrContains(<<"scraping failed: ">> \o err.msg, CtxDeadlineMsg) THEN 504
    ELSE 500

\* the handler's clamp of the ?timeout= parameter
ClampTimeout(param) ==
    LET t0 == IF param = 0 THEN DefaultTimeoutMs ELSE param
        t1 == IF t0 > MaxTimeoutMs THEN MaxTimeoutMs ELSE t0
    IN  IF t1 < MinTimeoutMs THEN MinTimeoutMs ELSE t1

-----------------------------------------------------------------------------
(* State *)

NoOp == [due |-> 0, timedOut |-> FALSE]

\* no Node.js handler is running, no library function has been called
NoJS == [pc |-> "none"]
NoCall == [fn |-> "none"]
NoRet == [fn |-> "none"]

Init ==
    /\ now = 0
    /\ req \in [url : InputURLs \cup OtherURLs, timeout : TimeoutParams]
    /\ pc = "start"
    /\ main = [due |-> 0, timedOut |-> FALSE, retry |-> 0, lastStatus |-> 0,
               respAt |-> 0, startedAt |-> 0,
               reqDeadline |-> 0, httpDeadline |-> 0, browserDeadline |-> 0, navIdx |-> 0]
    /\ tasks = << >>
    /\ chan = [buf |-> << >>, closed |-> FALSE]
    /\ grp = [cancelled |-> FALSE, waiter |-> "none"]
    /\ hist = [primary |-> "none", raceStarted |-> FALSE, raceReturned |-> FALSE,
               inFlightAtReturn |-> 0, goodAlts |-> {}, browserStarted |-> FALSE,
               httpSawChallenge |-> FALSE, browserSawChallenge |-> FALSE,
               httpOK |-> FALSE, httpURL |-> NoURL, httpHTML |-> NoHTML, httpErr |-> NoErr]
    /\ response = [status |-> 0, at |-> 0, phase |-> "none", url |-> NoURL, html |-> NoHTML]
    /\ js = NoJS
    /\ call = NoCall
    /\ ret = NoRet

Alternates == GenerateAlternateURLs(req.url)

TaskIds == 1..Len(tasks)

\* goroutine i has returned with outcome o: its locals are gone
TaskEnded(i, o) ==
    [tasks EXCEPT ![i] = [st |-> "done", url |-> tasks[i].url, resp |-> RespTransport,
                          due |-> 0, timedOut |-> FALSE, retry |-> 0, lastStatus |-> 0,
                          respAt |-> 0, startedAt |-> 0, html |-> NoHTML, out |-> o]]

\* the errgroup context is done: cancelled, or its parent's deadline has passed
GroupDoneAt(t) == grp.cancelled \/ t >= main.httpDeadline

\* when each process can next step
MainDue ==
    CASE pc = "start" -> now
      [] pc \in {"primary", "backoff", "setup", "nav"} -> main.due
      [] pc = "race" ->
            IF chan.buf # << >> \/ chan.closed \/ grp.cancelled
            THEN now ELSE Max(now, main.httpDeadline)
      [] OTHER -> now

TaskDue(i) ==
    CASE tasks[i].st = "fetch" -> IF grp.cancelled THEN now ELSE tasks[i].due
      [] tasks[i].st = "sleep" -> tasks[i].due
      [] tasks[i].st = "send" ->
            IF Len(chan.buf) < ResultChanCap \/ grp.cancelled
            THEN now ELSE Max(now, main.httpDeadline)
      [] OTHER -> now

WaiterReady ==
    \/ grp.waiter = "waiting" /\ \A i \in TaskIds : tasks[i].st = "done"
    \/ grp.waiter = "returned"

Dues ==
    (IF pc # "done" THEN {MainDue} ELSE {})
    \cup {TaskDue(i) : i \in {j \in TaskIds : tasks[j].st # "done"}}
    \cup (IF WaiterReady THEN {now} ELSE {})

\* a process steps at time d only if nothing else is due before d
Earliest(d) == \A e \in Dues : d <= e

-----------------------------------------------------------------------------
(* Observations recorded for the properties *)

\* what the primary request ended with, in the vocabulary of the error kinds
OutcomeClass(r) ==
    IF r.kind = "transport" THEN "transport"
    ELSE IF r.status >= 500 THEN "5xx"
    ELSE IF r.status \in {403, 406, 451} THEN "blocked4xx"
    ELSE IF r.status >= 400 THEN "4xx"
    ELSE IF ~r.isHTML THEN "nonhtml"
    ELSE IF HTTPLooksLikeCFBlock(r.page) THEN "challenge"
    ELSE IF r.size > SizeLimitBytes THEN "oversize"
    ELSE "ok"

InFlight == Cardinality({i \in TaskIds : tasks[i].st # "done"})

-----------------------------------------------------------------------------
(* The handler goroutine: Handler, ScrapeSmartWithTimeout, ScrapeSmart,     *)
(* FetchWithAlternatesGroup, scrapeWithOptions                              *)

\* ScrapeSmart returns: its deferred cancel() calls end the HTTP context, and
\* the handler writes the response
Respond(status, phase, url, html) ==
    /\ response' = [status |-> status, at |-> now', phase |-> phase, url |-> url, html |-> html]
    /\ pc' = "done"
    /\ grp' = [grp EXCEPT !.cancelled =
                  grp.cancelled \/ (hist.raceStarted /\ now' < main.httpDeadline)]

\* ScrapeSmart phase 2 begins: the browser contexts are derived and the first
\* chromedp.Run starts the browser
EnterBrowser ==
    \E lat \in LaunchLatencies :
        LET bd == Min(main.reqDeadline, now' + BrowserBudgetMs)
            op == BeginOp(now', lat, bd)
        IN  /\ main' = [main EXCEPT !.due = op.due, !.timedOut = op.timedOut,
                                    !.browserDeadline = bd, !.navIdx = 0,
                                    !.retry = 0, !.lastStatus = 0, !.respAt = 0, !.startedAt = 0]
            /\ pc' = "setup"

\* Handler up to the first client.Do of FetchHTML(ctx, targetURL, 0)
HandlerStart ==
    /\ pc = "start"
    /\ ~URLParseFails(req.url)
    /\ Earliest(now)
    /\ now' = now
    /\ \E lat \in Latencies :
        LET rd == now + ClampTimeout(req.timeout)
            hd == Min(rd, now + HTTPBudgetMs)
            op == BeginRequest(now, lat, hd)
        IN  main' = [main EXCEPT !.due = op.due, !.timedOut = op.timedOut, !.retry = 0,
                                 !.startedAt = now, !.reqDeadline = rd, !.httpDeadline = hd]
    /\ pc' = "primary"
    /\ UNCHANGED <<req, tasks, chan, grp, hist, response, js, call, ret>>

\* Handler: url.Parse returns an error, 400 "Invalid URL format"
HandlerRejects ==
    /\ pc = "start"
    /\ URLParseFails(req.url)
    /\ now' = now
    /\ Respond(400, "validate", NoURL, NoHTML)
    /\ UNCHANGED <<req, main, tasks, chan, hist, js, call, ret>>

\* the outcomes FetchHTML can have for the primary request now in flight,
\* each with the class of the server's answer; the client has no transport
\* for a scheme other than http and https
PrimaryOutcomes ==
    IF main.timedOut
    THEN {[out |-> FetchHTMLAborted(FALSE), class |-> "transport", status |-> 0]}
    ELSE {[out |-> FetchHTMLResult(r, main.retry), class |-> OutcomeClass(r), status |-> r.status]
            : r \in IF req.url.scheme \in {"http", "https"} THEN Responses
                     ELSE {RespTransport}}

\* FetchHTML: status >= 500, retryWithBackoff sleeps
PrimaryRetry ==
    /\ pc = "primary"
    /\ Earliest(main.due)
    /\ now' = main.due
    /\ \E o \in PrimaryOutcomes :
        /\ o.out.t = "sleep"
        /\ main' = [main EXCEPT !.due = now' + o.out.delay, !.timedOut = FALSE,
                                !.lastStatus = o.status, !.respAt = now']
    /\ pc' = "backoff"
    /\ UNCHANGED <<req, tasks, chan, grp, hist, response, js, call, ret>>

\* retryWithBackoff: time.Sleep(delay) is over, FetchHTML(ctx, targetURL, retryCount+1)
BackoffWake ==
    /\ pc = "backoff"
    /\ Earliest(main.due)
    /\ now' = main.due
    /\ \E lat \in Latencies :
        LET op == BeginRequest(now', lat, main.httpDeadline)
        IN  main' = [main EXCEPT !.due = op.due, !.timedOut = op.timedOut,
                                 !.retry = main.retry + 1, !.startedAt = now']
    /\ pc' = "primary"
    /\ UNCHANGED <<req, tasks, chan, grp, hist, response, js, call, ret>>

\* the primary page is accepted: ExtractArticle, 200
PrimarySuccess ==
    /\ pc = "primary"
    /\ Earliest(main.due)
    /\ now' = main.due
    /\ \E o \in PrimaryOutcomes :
        /\ FetchAccepted(o.out)
        /\ hist' = [hist EXCEPT !.primary = o.class, !.httpOK = TRUE,
                                !.httpURL = req.url, !.httpHTML = o.out.html]
        /\ Respond(200, "http", req.url, o.out.html)
    /\ UNCHANGED <<req, main, tasks, chan, js, call, ret>>

\* the primary error is returned as it is; ScrapeSmart goes on to the browser
PrimaryFail ==
    /\ pc = "primary"
    /\ Earliest(main.due)
    /\ now' = main.due
    /\ \E o \in PrimaryOutcomes :
        /\ o.out.t = "err"
        /\ ~TriesAlternates(o.out)
        /\ hist' = [hist EXCEPT !.primary = o.class, !.httpErr = o.out.err,
                                !.browserStarted = TRUE]
    /\ EnterBrowser
    /\ UNCHANGED <<req, tasks, chan, grp, response, js, call, ret>>

\* the alternates are generated and one goroutine per alternate is started
StartRace ==
    /\ pc = "primary"
    /\ Earliest(main.due)
    /\ now' = main.due
    /\ \E o \in PrimaryOutcomes :
        /\ o.out.t # "sleep"
        /\ ~FetchAccepted(o.out)
        /\ TriesAlternates(o.out)
        /\ \E f \in [1..Len(Alternates) -> AltResponses \X AltLatencies] :
            /\ tasks' = [i \in 1..Len(Alternates) |->
                          LET op == BeginRequest(now', f[i][2], main.httpDeadline)
                          IN  [st |-> "fetch", url |-> Alternates[i], resp |-> f[i][1],
                               due |-> op.due, timedOut |-> op.timedOut, retry |-> 0,
                               lastStatus |-> 0, respAt |-> 0, startedAt |-> now',
                               html |-> NoHTML, out |-> "none"]]
            /\ hist' = [hist EXCEPT !.primary = o.class, !.raceStarted = TRUE,
                                    !.httpSawChallenge = (o.out.t = "ok"),
                                    !.goodAlts = {i \in 1..Len(Alternates) : tasks'[i].retry = 0
                                                    /\ ~tasks'[i].timedOut
                                                    /\ OutcomeClass(tasks'[i].resp) = "ok"}]
    /\ main' = [main EXCEPT !.due = now', !.timedOut = FALSE, !.retry = 0, !.lastStatus = 0,
                            !.respAt = 0, !.startedAt = 0]
    /\ grp' = [grp EXCEPT !.waiter = "waiting"]
    /\ pc' = "race"
    /\ UNCHANGED <<req, chan, response, js, call, ret>>

\* select: a value (or the zero value of the closed channel) is received from
\* resultChan; FetchWithAlternatesGroup returns it with a nil error
RaceRecv ==
    /\ pc = "race"
    /\ chan.buf # << >> \/ chan.closed
    /\ Earliest(MainDue)
    /\ now' = MainDue
    /\ LET v == IF chan.buf # << >> THEN Head(chan.buf) ELSE [html |-> NoHTML, url |-> NoURL]
       IN  /\ chan' = [chan EXCEPT !.buf = IF chan.buf # << >> THEN Tail(chan.buf) ELSE << >>]
           /\ hist' = [hist EXCEPT !.raceReturned = TRUE, !.inFlightAtReturn = InFlight,
                                   !.httpOK = TRUE, !.httpURL = v.url, !.httpHTML = v.html]
           /\ Respond(200, "http", v.url, v.html)
    /\ UNCHANGED <<req, main, tasks, js, call, ret>>

\* select: <-ctx.Done(); FetchWithAlternatesGroup returns ctx.Err() and
\* ScrapeSmart goes on to the browser
RaceCtxDone ==
    /\ pc = "race"
    /\ Earliest(MainDue)
    /\ now' = MainDue
    /\ GroupDoneAt(now')
    /\ hist' = [hist EXCEPT !.raceReturned = TRUE, !.inFlightAtReturn = InFlight,
                            !.httpErr = ErrCtx(~grp.cancelled), !.browserStarted = TRUE]
    /\ EnterBrowser
    /\ UNCHANGED <<req, tasks, chan, grp, response, js, call, ret>>

\* how the first chromedp.Run (browser start, blocking script) can end
LaunchOutcomes == IF main.timedOut THEN {"deadline"} ELSE {"ok", "failed"}

\* scrapeWithOptions: the set-up Run failed; ScrapeSmart classifies the error
BrowserSetupFailed ==
    /\ pc = "setup"
    /\ Earliest(main.due)
    /\ now' = main.due
    /\ \E l \in LaunchOutcomes :
        /\ l # "ok"
        /\ LET err == ErrBrowserSetup(IF l = "deadline" THEN CtxDeadlineMsg
                                      ELSE <<"chrome failed to start">>)
           IN  Respond(StatusForFailure(err), "none", NoURL, NoHTML)
    /\ UNCHANGED <<req, main, tasks, chan, hist, js, call, ret>>

\* scrapeWithOptions: set-up done, navigateAndExtract(ctx, targetURL) starts
BrowserSetupDone ==
    /\ pc = "setup"
    /\ Earliest(main.due)
    /\ now' = main.due
    /\ "ok" \in LaunchOutcomes
    /\ \E lat \in Latencies :
        LET op == BeginOp(now', lat, main.browserDeadline)
        IN  main' = [main EXCEPT !.due = op.due, !.timedOut = op.timedOut, !.navIdx = 0]
    /\ pc' = "nav"
    /\ UNCHANGED <<req, tasks, chan, grp, hist, response, js, call, ret>>

\* the outcomes of the navigation now in flight
CurrentNavOutcomes ==
    IF main.timedOut \/ req.url.scheme \notin {"http", "https"} THEN {NavError}
    ELSE NavOutcomes

NavURL == IF main.navIdx = 0 THEN req.url ELSE Alternates[main.navIdx]

NavSaw(o) == hist.browserSawChallenge \/ (o.ok /\ BrowserLooksLikeCFBlock(o.page))

\* navigateAndExtract returned a page that is accepted: ExtractArticle, 200
NavSuccess ==
    /\ pc = "nav"
    /\ Earliest(main.due)
    /\ now' = main.due
    /\ \E o \in CurrentNavOutcomes :
        /\ NavAccepted(o)
        /\ Respond(200, "browser", NavURL, [text |-> o.page, len |-> 2048, served |-> 2048])
    /\ UNCHANGED <<req, main, tasks, chan, hist, js, call, ret>>

\* the navigation failed or showed a challenge: the next alternate is tried
NavNext ==
    /\ pc = "nav"
    /\ Earliest(main.due)
    /\ now' = main.due
    /\ main.navIdx < Len(Alternates)
    /\ \E o \in CurrentNavOutcomes :
        /\ ~NavAccepted(o)
        /\ hist' = [hist EXCEPT !.browserSawChallenge = NavSaw(o)]
    /\ \E lat \in Latencies :
        LET op == BeginOp(now', lat, main.browserDeadline)
        IN  main' = [main EXCEPT !.due = op.due, !.timedOut = op.timedOut,
                                 !.navIdx = main.navIdx + 1]
    /\ UNCHANGED <<req, pc, tasks, chan, grp, response, js, call, ret>>

\* the last alternate failed too: "all URLs failed or were blocked by Cloudflare"
NavExhausted ==
    /\ pc = "nav"
    /\ Earliest(main.due)
    /\ now' = main.due
    /\ main.navIdx = Len(Alternates)
    /\ \E o \in CurrentNavOutcomes :
        /\ ~NavAccepted(o)
        /\ hist' = [hist EXCEPT !.browserSawChallenge = NavSaw(o)]
    /\ Respond(StatusForFailure(ErrAllURLsFailed), "none", NoURL, NoHTML)
    /\ UNCHANGED <<req, main, tasks, chan, js, call, ret>>

-----------------------------------------------------------------------------
(* The goroutines started by g.Go, and the goroutine that waits for them *)

\* what FetchHTML returns to goroutine i for the request now in flight
TaskOutcome(i) ==
    IF grp.cancelled THEN FetchHTMLAborted(TRUE)
    ELSE IF tasks[i].timedOut THEN FetchHTMLAborted(FALSE)
    ELSE FetchHTMLResult(tasks[i].resp, tasks[i].retry)

\* FetchHTML: status >= 500, retryWithBackoff sleeps
TaskRetry(i) ==
    /\ tasks[i].st = "fetch"
    /\ Earliest(TaskDue(i))
    /\ now' = TaskDue(i)
    /\ TaskOutcome(i).t = "sleep"
    /\ tasks' = [tasks EXCEPT ![i].st = "sleep", ![i].due = now' + TaskOutcome(i).delay,
                              ![i].lastStatus = tasks[i].resp.status, ![i].respAt = now']
    /\ UNCHANGED <<req, pc, main, chan, grp, hist, response, js, call, ret>>

\* time.Sleep(delay) is over: FetchHTML(ctx, altURL, retryCount+1)
TaskWake(i) ==
    /\ tasks[i].st = "sleep"
    /\ Earliest(TaskDue(i))
    /\ now' = TaskDue(i)
    /\ \E r \in AltResponses, lat \in Latencies :
        LET op == BeginRequest(now', lat, main.httpDeadline)
        IN  tasks' = [tasks EXCEPT ![i].st = "fetch", ![i].resp = r, ![i].due = op.due,
                                  ![i].timedOut = op.timedOut,
                                  ![i].retry = tasks[i].retry + 1, ![i].startedAt = now']
    /\ UNCHANGED <<req, pc, main, chan, grp, hist, response, js, call, ret>>

\* the alternate's page is accepted: the goroutine reaches its select
TaskGotPage(i) ==
    /\ tasks[i].st = "fetch"
    /\ Earliest(TaskDue(i))
    /\ now' = TaskDue(i)
    /\ FetchAccepted(TaskOutcome(i))
    /\ tasks' = [tasks EXCEPT ![i].st = "send", ![i].html = TaskOutcome(i).html]
    /\ UNCHANGED <<req, pc, main, chan, grp, hist, response, js, call, ret>>

\* the alternate's page looks like a challenge: the goroutine returns err, nil
TaskChallenged(i) ==
    /\ tasks[i].st = "fetch"
    /\ Earliest(TaskDue(i))
    /\ now' = TaskDue(i)
    /\ TaskOutcome(i).t = "ok"
    /\ ~FetchAccepted(TaskOutcome(i))
    /\ tasks' = TaskEnded(i, "challenged")
    /\ hist' = [hist EXCEPT !.httpSawChallenge = TRUE]
    /\ UNCHANGED <<req, pc, main, chan, grp, response, js, call, ret>>

\* FetchHTML failed: the goroutine returns the error and errgroup cancels
\* the derived context
TaskFailed(i) ==
    /\ tasks[i].st = "fetch"
    /\ Earliest(TaskDue(i))
    /\ now' = TaskDue(i)
    /\ TaskOutcome(i).t = "err"
    /\ tasks' = TaskEnded(i, "failed")
    /\ grp' = [grp EXCEPT !.cancelled = grp.cancelled \/ now' < main.httpDeadline]
    /\ UNCHANGED <<req, pc, main, chan, hist, response, js, call, ret>>

\* select: the value is put into resultChan
TaskSend(i) ==
    /\ tasks[i].st = "send"
    /\ Len(chan.buf) < ResultChanCap
    /\ Earliest(TaskDue(i))
    /\ now' = TaskDue(i)
    /\ chan' = [chan EXCEPT !.buf = Append(chan.buf, [html |-> tasks[i].html, url |-> tasks[i].url])]
    /\ tasks' = TaskEnded(i, "sent")
    /\ UNCHANGED <<req, pc, main, grp, hist, response, js, call, ret>>

\* select: <-ctx.Done(), the value is dropped
TaskDrop(i) ==
    /\ tasks[i].st = "send"
    /\ Earliest(TaskDue(i))
    /\ now' = TaskDue(i)
    /\ GroupDoneAt(now')
    /\ tasks' = TaskEnded(i, "dropped")
    /\ UNCHANGED <<req, pc, main, chan, grp, hist, response, js, call, ret>>

\* g.Wait() returns once every goroutine has returned, and cancels the context
WaiterReturn ==
    /\ grp.waiter = "waiting"
    /\ \A i \in TaskIds : tasks[i].st = "done"
    /\ Earliest(now)
    /\ now' = now
    /\ grp' = [grp EXCEPT !.waiter = "returned",
                          !.cancelled = grp.cancelled \/ now < main.httpDeadline]
    /\ UNCHANGED <<req, pc, main, tasks, chan, hist, response, js, call, ret>>

\* close(resultChan)
WaiterClose ==
    /\ grp.waiter = "returned"
    /\ Earliest(now)
    /\ now' = now
    /\ chan' = [chan EXCEPT !.closed = TRUE]
    /\ grp' = [grp EXCEPT !.waiter = "closed"]
    /\ UNCHANGED <<req, pc, main, tasks, hist, response, js, call, ret>>

-----------------------------------------------------------------------------

Next ==
    \/ HandlerStart
    \/ HandlerRejects
    \/ PrimaryRetry
    \/ BackoffWake
    \/ PrimarySuccess
    \/ PrimaryFail
    \/ StartRace
    \/ RaceRecv
    \/ RaceCtxDone
    \/ BrowserSetupFailed
    \/ BrowserSetupDone
    \/ NavSuccess
    \/ NavNext
    \/ NavExhausted
    \/ \E i \in TaskIds : TaskRetry(i)
    \/ \E i \in TaskIds : TaskWake(i)
    \/ \E i \in TaskIds : TaskGotPage(i)
    \/ \E i \in TaskIds : TaskChallenged(i)
    \/ \E i \in TaskIds : TaskFailed(i)
    \/ \E i \in TaskIds : TaskSend(i)
    \/ \E i \in TaskIds : TaskDrop(i)
    \/ WaiterReturn
    \/ WaiterClose

Spec == Init /\ [][Next]_vars

-----------------------------------------------------------------------------
(* Properties of the orchestrator: ScrapeSmart and the Cloud Run handler *)

\* C1: the browser phase is started only after the HTTP phase failed with
\* HTTP 403/406/451, a 5xx, a non-HTML content type, a transport error or a
\* detected challenge; after any other failure (404, oversize) no browser runs.
C1_BrowserOnlyAfterListedKinds ==
    hist.browserStarted =>
        hist.primary \in {"blocked4xx", "5xx", "nonhtml", "transport", "challenge"}

\* C2: a request that failed in both phases is answered 451 (blocked) exactly
\* when a challenge was detected in the HTTP phase and in the browser phase;
\* every other double failure is a generic failure.
C2_BlockedIffBothChallenged ==
    response.status \in {451, 500, 504} =>
        (response.status = 451 <=> (hist.httpSawChallenge /\ hist.browserSawChallenge))

\* C3: when the request deadline has expired by the time the scrape ends, in
\* whichever phase, the response is 504 and neither 451 nor 500.
C3_DeadlineGives504 ==
    (response.status # 0 /\ response.at >= main.reqDeadline) => response.status = 504

C5_WithinDeadline ==
    response.status # 0 => response.at <= main.reqDeadline + 10

-----------------------------------------------------------------------------
(* Properties of FetchWithAlternatesGroup and FetchHTML *)

\* C6: when an alternate answers with a non-challenged page within the budget,
\* the race returns the page and URL of such an alternate; another alternate's
\* failure neither cancels nor hides it.
C6_FailureDoesNotHideSuccess ==
    (hist.raceReturned /\ hist.goodAlts # {}) =>
        /\ hist.httpOK
        /\ \E i \in hist.goodAlts : hist.httpURL = Alternates[i]

\* C7: the race never returns a success with empty HTML and URL; when it fails
\* for a reason other than its deadline, every goroutine has ended and the
\* error is the aggregate 'all alternates failed'.
C7_AllFailedIsAggregate ==
    hist.raceReturned =>
        /\ hist.httpOK => (hist.httpURL # NoURL /\ hist.httpHTML # NoHTML)
        /\ (~hist.httpOK /\ hist.httpErr.kind # "deadline") =>
              (hist.inFlightAtReturn = 0 /\ hist.httpErr.kind = "allfailed")

\* C8: the alternates are fetched if and only if the primary attempt ended
\* with HTTP 403/406/451, with a 5xx (also one that outlasts the retries) or
\* with a detected challenge.
C8_AlternatesIffQualifying ==
    hist.primary # "none" =>
        (hist.raceStarted <=> hist.primary \in {"blocked4xx", "5xx", "challenge"})

\* an attempt of FetchHTML in flight: how many retries led to it, the status
\* that caused the last one and the wait that preceded it
AttemptFollowsRule(p) ==
    /\ p.retry <= 2
    /\ p.retry >= 1 =>
          /\ p.lastStatus >= 500
          /\ p.startedAt - p.respAt = Min(1000 * (2 ^ (p.retry - 1)), 5000)

\* C9: a request is re-issued only after a status >= 500, at most twice, and
\* retry n starts min(1s * 2^n, 5s) after the response that caused it.
C9_RetryOnly5xxTwiceWithBackoff ==
    /\ pc = "primary" => AttemptFollowsRule(main)
    /\ pc = "backoff" => (main.lastStatus >= 500 /\ main.retry < 2)
    /\ \A i \in TaskIds :
          /\ tasks[i].st = "fetch" => AttemptFollowsRule(tasks[i])
          /\ tasks[i].st = "sleep" => (tasks[i].lastStatus >= 500 /\ tasks[i].retry < 2)

\* C9 happens: the third attempt for the primary URL is in flight
C9_Witness == pc = "primary" /\ main.retry = 2 /\ main.startedAt - main.respAt = 2000

\* C10: a successful fetch holds the whole body: a body above the size cap is
\* never returned as a truncated prefix.
C10_NoTruncatedSuccess ==
    hist.httpOK => hist.httpHTML.len = hist.httpHTML.served

-----------------------------------------------------------------------------
(* The Node.js browser fetch: scrapeWithPuppeteer (lambda, legacy lambda)   *)
(* and the two scrapeWebsite functions of the Next.js API route             *)

\* the state of the Go service while a Node.js handler or a library call is
\* looked at: no request is in flight
GoQuiet ==
    /\ now = 0
    /\ req = [url |-> NoURL, timeout |-> 0]
    /\ pc = "none"
    /\ main = [due |-> 0, timedOut |-> FALSE, retry |-> 0, lastStatus |-> 0,
               respAt |-> 0, startedAt |-> 0,
               reqDeadline |-> 0, httpDeadline |-> 0, browserDeadline |-> 0, navIdx |-> 0]
    /\ tasks = << >>
    /\ chan = [buf |-> << >>, closed |-> FALSE]
    /\ grp = [cancelled |-> FALSE, waiter |-> "none"]
    /\ hist = [primary |-> "none", raceStarted |-> FALSE, raceReturned |-> FALSE,
               inFlightAtReturn |-> 0, goodAlts |-> {}, browserStarted |-> FALSE,
               httpSawChallenge |-> FALSE, browserSawChallenge |-> FALSE,
               httpOK |-> FALSE, httpURL |-> NoURL, httpHTML |-> NoHTML, httpErr |-> NoErr]
    /\ response = [status |-> 0, at |-> 0, phase |-> "none", url |-> NoURL, html |-> NoHTML]

GoVars == <<now, req, pc, main, tasks, chan, grp, hist, response>>

\* which function: "lambda" is scrapeWithPuppeteer (try/finally with a guarded
\* close), "api" is scrapeWebsite of pages/api/scrape.ts (close inside the try
\* and again in the catch), "route" is the scrapeWebsite with a bare close in
\* its finally block
\* how the body of the try block can end
BodyOutcomes(variant) ==
    CASE variant = "lambda" -> {"success", "navigation", "status", "challenge", "timeout"}
      [] variant = "api" -> {"success", "navigation", "timeout"}
      [] variant = "route" -> {"success", "navigation", "challenge", "timeout", "extract"}

NoCompletion == [ok |-> FALSE, cause |-> "none"]

\* the fields of js: those of a browser fetch, then those of a handler call
NodeFields ==
    [pc |-> "none", variant |-> "none", browser |-> "none", closeCalls |-> 0,
     body |-> "none", pending |-> NoCompletion, result |-> NoCompletion,
     verdicts |-> << >>,
     t |-> 0, remaining |-> 0, soft |-> 0, scrape |-> "idle", scrapeDue |-> 0,
     scrapeOK |-> FALSE, status |-> 0, at |-> 0, lateStarts |-> 0]

\* puppeteer.launch / launchBrowser: the browser starts, or the launch throws
\* and the function ends with that error (there is no browser to close)
Launch ==
    /\ js.pc = "launch"
    /\ \E started \in BOOLEAN :
        js' = IF started
              THEN [js EXCEPT !.pc = "body", !.browser = "open"]
              ELSE [js EXCEPT !.pc = "returned", !.result = [ok |-> FALSE, cause |-> "launch"]]
    /\ UNCHANGED <<GoVars, call, ret>>

\* the try block runs up to its return or its throw
TryBody ==
    /\ js.pc = "body"
    /\ \E o \in BodyOutcomes(js.variant) :
        js' = [js EXCEPT !.body = o, !.pending = [ok |-> o = "success", cause |-> o],
                         !.pc = CASE js.variant = "lambda" -> "finally"
                                  [] js.variant = "route" -> "finally"
                                  [] js.variant = "api" ->
                                        IF o = "success" THEN "close" ELSE "catch"]
    /\ UNCHANGED <<GoVars, call, ret>>

\* browser.close() is called: it closes the browser or throws
CloseCalled(closed) ==
    [js EXCEPT !.closeCalls = js.closeCalls + 1,
               !.browser = IF closed THEN "closed" ELSE js.browser]

\* try { if (browser) await browser.close(); } catch {}  (lambda: finally;
\* api: catch block, followed by throw err)
CloseSwallowed ==
    /\ \/ js.pc = "finally" /\ js.variant = "lambda"
       \/ js.pc = "catch" /\ js.variant = "api"
    /\ \E closed \in BOOLEAN :
        js' = [CloseCalled(closed) EXCEPT !.pc = "returned", !.result = js.pending]
    /\ UNCHANGED <<GoVars, call, ret>>

\* api: await browser.close() as the last statement of the try block
CloseInTry ==
    /\ js.pc = "close" /\ js.variant = "api"
    /\ \E closed \in BOOLEAN :
        js' = IF closed
              THEN [CloseCalled(closed) EXCEPT !.pc = "returned", !.result = js.pending]
              ELSE [CloseCalled(closed) EXCEPT !.pc = "catch",
                                               !.pending = [ok |-> FALSE, cause |-> "close"]]
    /\ UNCHANGED <<GoVars, call, ret>>

\* route: finally { await browser.close() }: a throw replaces the completion
CloseInFinally ==
    /\ js.pc = "finally" /\ js.variant = "route"
    /\ \E closed \in BOOLEAN :
        js' = [CloseCalled(closed) EXCEPT
                  !.pc = "returned",
                  !.result = IF closed THEN js.pending ELSE [ok |-> FALSE, cause |-> "close"]]
    /\ UNCHANGED <<GoVars, call, ret>>

-----------------------------------------------------------------------------
(* Request interception of scrapeWithPuppeteer: page.on('request', ...)     *)
(* A request URL is a sequence of tokens: maximal runs of word characters   *)
(* and the separators between them.                                         *)

\* the /i flag on the words the requests use
LowerWord(w) ==
    CASE w = "DoubleClick" -> "doubleclick"
      [] w = "Taboola" -> "taboola"
      [] w = "Logo" -> "logo"
      [] OTHER -> w

\* the alternatives of the tracker expression, each between two \b
TrackerDenylist ==
    << <<"doubleclick">>, <<"googlesyndication">>, <<"google", "-", "analytics">>,
       <<"facebook", ".", "com", "/", "tr">>, <<"taboola">>, <<"outbrain">>,
       <<"scorecardresearch">>, <<"chartbeat">>, <<"amazon", "-", "adsystem">> >>

\* /\b(...)\b/i.test(u): an alternative occurs as a run of whole tokens
MatchesTrackers(u) ==
    LET lower == [i \in 1..Len(u) |-> LowerWord(u[i])]
    IN  \E k \in 1..Len(TrackerDenylist) : StrContains(lower, TrackerDenylist[k])

\* a faulty handler that tests the tracker expression before the resource
\* type: C13 must not hold for it
RequestHandlerTrackersFirst(r) ==
    IF MatchesTrackers(r.url) THEN <<"abort">>
    ELSE IF r.type = "document" THEN <<"continue">>
    ELSE IF r.type \in {"image", "media", "font", "stylesheet"} THEN <<"abort">>
    ELSE <<"continue">>

\* the calls the handler makes on one intercepted request
RequestHandler(r) ==
    IF r.type = "document" THEN <<"continue">>
    ELSE IF r.type = "image" \/ r.type = "media" \/ r.type = "font" THEN <<"abort">>
    ELSE IF r.type = "stylesheet" THEN <<"abort">>
    ELSE IF MatchesTrackers(r.url) THEN <<"abort">>
    ELSE <<"continue">>

\* the requests a page load can make: every resource type, to the site, to
\* two tracker hosts, and to a host whose name only contains a tracker's
InterceptedRequests ==
    [type : {"document", "image", "media", "font", "stylesheet", "script", "xhr"},
     url : { <<"https", "://", "news", ".", "example", ".", "com", "/", "story">>,
             <<"https", "://", "ad", ".", "DoubleClick", ".", "net", "/", "pixel">>,
             <<"https", "://", "www", ".", "google", "-", "analytics", ".", "com",
               "/", "collect">>,
             <<"https", "://", "cdn", ".", "mytaboolawidgets", ".", "com", "/", "app">> }]

\* how many intercepted requests of one page load are followed
MaxIntercepts == 2

\* a request of the page is intercepted while the page loads
Intercept ==
    /\ js.pc = "body"
    /\ js.variant = "lambda"
    /\ Len(js.verdicts) < MaxIntercepts
    /\ \E r \in InterceptedRequests :
        js' = [js EXCEPT !.verdicts = Append(js.verdicts, [req |-> r, calls |-> RequestHandler(r)])]
    /\ UNCHANGED <<GoVars, call, ret>>

-----------------------------------------------------------------------------
(* The Lambda handler (lambda/index.js): soft timeout, watchdog and         *)
(* Promise.race with scrapeSmart                                            *)

SoftTimeoutFloorMs == 1000
SoftTimeoutCapMs == 70000
SafetyMarginMs == 3000

\* SOFT_TIMEOUT_MS = Math.max(1000, Math.min(70000, remaining - 3000))
SoftTimeoutMs(remaining) ==
    Max(SoftTimeoutFloorMs, Min(SoftTimeoutCapMs, remaining - SafetyMarginMs))

\* how long the fetch phase and the browser phase of scrapeSmart take
PhaseLatencies == {500, 5000}

\* the handler up to Promise.race: the watchdog timer is set and scrapeSmart
\* starts its fetch phase
HandlerRace ==
    /\ js.pc = "h_start"
    /\ \E lat \in PhaseLatencies :
        js' = [js EXCEPT !.pc = "h_race", !.soft = SoftTimeoutMs(js.remaining),
                         !.scrape = "fetch", !.scrapeDue = lat]
    /\ UNCHANGED <<GoVars, call, ret>>

\* a timer or an I/O completion at time d is the next event of the event loop
NextEventAt(d) ==
    /\ js.scrape \in {"fetch", "browser"} => d <= js.scrapeDue
    /\ js.pc = "h_race" /\ js.scrape # "settled" => d <= js.soft

\* scrapeSmart phase 1 ends: its result settles the promise, or its error is
\* caught and scrapeWithPuppeteer is called; nothing stops it once the
\* handler has returned
ScrapeFetchEnds ==
    /\ js.scrape = "fetch"
    /\ NextEventAt(js.scrapeDue)
    /\ \/ js' = [js EXCEPT !.t = js.scrapeDue, !.scrape = "settled", !.scrapeOK = TRUE]
       \/ \E lat \in PhaseLatencies :
            js' = [js EXCEPT !.t = js.scrapeDue, !.scrape = "browser",
                             !.scrapeDue = js.scrapeDue + lat,
                             !.lateStarts = js.lateStarts + (IF js.status = 504 THEN 1 ELSE 0)]
    /\ UNCHANGED <<GoVars, call, ret>>

\* scrapeSmart phase 2 ends with the article or with an error
ScrapeBrowserEnds ==
    /\ js.scrape = "browser"
    /\ NextEventAt(js.scrapeDue)
    /\ \E ok \in BOOLEAN :
        js' = [js EXCEPT !.t = js.scrapeDue, !.scrape = "settled", !.scrapeOK = ok]
    /\ UNCHANGED <<GoVars, call, ret>>

\* the watchdog timer rejects first: catch block, 504
WatchdogFires ==
    /\ js.pc = "h_race"
    /\ js.scrape # "settled"
    /\ NextEventAt(js.soft)
    /\ js' = [js EXCEPT !.t = js.soft, !.pc = "h_done", !.status = 504, !.at = js.soft]
    /\ UNCHANGED <<GoVars, call, ret>>

\* scrapeSmart settled first: 200 with its result, or 500 with its error
HandlerReturns ==
    /\ js.pc = "h_race"
    /\ js.scrape = "settled"
    /\ js' = [js EXCEPT !.pc = "h_done", !.status = IF js.scrapeOK THEN 200 ELSE 500,
                        !.at = js.t]
    /\ UNCHANGED <<GoVars, call, ret>>

InitNode ==
    /\ GoQuiet
    /\ js \in {[NodeFields EXCEPT !.pc = "launch", !.variant = v] :
                    v \in {"lambda", "api", "route"}}
              \cup {[NodeFields EXCEPT !.pc = "h_start", !.remaining = r] :
                       r \in {500, 3500, 30000, 100000}}
    /\ call = NoCall
    /\ ret = NoRet

NextNode ==
    \/ Launch
    \/ TryBody
    \/ Intercept
    \/ CloseSwallowed
    \/ CloseInTry
    \/ CloseInFinally
    \/ HandlerRace
    \/ ScrapeFetchEnds
    \/ ScrapeBrowserEnds
    \/ WatchdogFires
    \/ HandlerReturns

SpecNode == InitNode /\ [][NextNode]_vars

-----------------------------------------------------------------------------
(* Properties of the Node.js browser fetch *)

\* C11: when the browser fetch returns, on whatever path, close was called on
\* the browser it launched, and a throw of close itself left the outcome as
\* the try block decided it.
C11_BrowserClosedOutcomeKept ==
    (js.pc = "returned" /\ js.browser # "none") =>
        /\ js.closeCalls >= 1
        /\ js.result.cause # "close"
        /\ js.result.ok <=> (js.body = "success")

\* C12: once the handler has answered 504, scrapeSmart starts no further
\* fetch or browser launch for the request, and a 200 never carries a result
\* that was computed after the watchdog fired.
C12_CancellationReachesAll ==
    js.pc = "h_done" =>
        /\ js.status = 504 => js.lateStarts = 0
        /\ js.status = 200 => js.at <= js.soft

\* C19: the soft timeout is at most the remaining time minus 3000 ms and at
\* most 70000 ms, and the handler's response is produced before the platform
\* deadline.
C19_SoftTimeoutBeforePlatformDeadline ==
    js.pc \in {"h_race", "h_done"} =>
        /\ js.soft <= js.remaining - 3000
        /\ js.soft <= 70000
        /\ js.pc = "h_done" => js.at < js.remaining

\* C13: every intercepted request gets exactly one verdict: continue for a
\* document whatever its URL, abort for an image, media, font or stylesheet,
\* and for any other kind abort exactly when the URL matches the trackers.
C13_OneVerdictPerRequest ==
    \A i \in 1..Len(js.verdicts) :
        LET r == js.verdicts[i].req
            calls == js.verdicts[i].calls
        IN  /\ Len(calls) = 1
            /\ r.type = "document" => calls[1] = "continue"
            /\ r.type \in {"image", "media", "font", "stylesheet"} => calls[1] = "abort"
            /\ r.type \notin {"document", "image", "media", "font", "stylesheet"} =>
                  (calls[1] = "abort" <=> MatchesTrackers(r.url))

\* C13 happens: a document request to a tracker host was continued and a
\* script request to a tracker host was aborted in the same page load
C13_Witness ==
    /\ \E i \in 1..Len(js.verdicts) :
          /\ js.verdicts[i].req.type = "document"
          /\ MatchesTrackers(js.verdicts[i].req.url)
          /\ js.verdicts[i].calls = <<"continue">>
    /\ \E i \in 1..Len(js.verdicts) :
          /\ js.verdicts[i].req.type = "script"
          /\ MatchesTrackers(js.verdicts[i].req.url)
          /\ js.verdicts[i].calls = <<"abort">>

(***************************************************************************)
(* Image selection.  A URL reference is a sequence of tokens: an optional  *)
(* origin, path pieces, an extension, and "?" or "#" with what follows.    *)
(***************************************************************************)

\* the origins that occur in the pages drawn below
Origins == {"https://news.example.com", "https://cdn.example.com"}

BaseURL == <<"https://news.example.com", "/story">>

\* imageExt of the Go service; the Lambda scraper's expression has no avif
GoImageExts == {".jpg", ".jpeg", ".png", ".gif", ".webp", ".avif"}

\* \.(ext)(?:$|[?#]) is unanchored on the left: an extension anywhere in the
\* string matches when the string ends there or "?" or "#" follows
ImageExtMatches(u, exts) ==
    \E i \in 1..Len(u) :
        u[i] \in exts /\ (i = Len(u) \/ u[i + 1] \in {"?", "#"})

\* base.ResolveReference(rel) / new URL(rel, base): a reference with its own
\* origin is kept, a rooted path takes the origin of the base
toAbsoluteURL(ref, base) ==
    IF Len(ref) >= 1 /\ ref[1] \in Origins THEN ref ELSE <<base[1]>> \o ref

BadHintWords ==
    {"sprite", "icon", "favicon", "logo", "avatar", "emoji", "placeholder",
     "pixel", "tracker", "ad", "ads", "adserver", "promo", "beacon"}

\* the hint expression over a URL, or over the tag's markup (tagWords)
hasBadHint(tagWords, u) ==
    \/ \E i \in 1..Len(u) : LowerWord(u[i]) \in BadHintWords
    \/ \E w \in tagWords : LowerWord(w) \in BadHintWords

\* (\d{3,4})x(\d{3,4}) between non-digits; the pages drawn below carry no
\* w= or h= parameter
parseDimensionsFromURL(u) ==
    IF \E i \in 1..Len(u) : u[i] = "1200x630" THEN <<1200, 630>> ELSE <<0, 0>>

\* dimensions of the tag, each missing one taken from the URL
WithURLDimensions(w, h, u) ==
    LET d == parseDimensionsFromURL(u)
    IN  <<IF w = 0 THEN d[1] ELSE w, IF h = 0 THEN d[2] ELSE h>>

\* the og:image candidate, << >> when there is none
extractOgImage(og, base) ==
    IF og.content = << >> THEN << >>
    ELSE LET absURL == toAbsoluteURL(og.content, base)
             d == WithURLDimensions(og.width, og.height, absURL)
         IN  IF ~ImageExtMatches(absURL, GoImageExts) THEN << >>
             ELSE << [URL |-> absURL, Width |-> d[1], Height |-> d[2],
                      InArticle |-> TRUE, BadHint |-> FALSE, Source |-> "og"] >>

\* the candidate of one img tag, << >> when the tag gives none
extractImgTag(s, base) ==
    IF s.src = << >> THEN << >>
    ELSE LET absURL == toAbsoluteURL(s.src, base)
             d == WithURLDimensions(s.width, s.height, absURL)
         IN  IF ~ImageExtMatches(absURL, GoImageExts) THEN << >>
             ELSE << [URL |-> absURL, Width |-> d[1], Height |-> d[2],
                      InArticle |-> s.inArticle,
                      BadHint |-> hasBadHint(s.words, absURL),
                      Source |-> "img"] >>

RECURSIVE extractImgTags(_, _)
extractImgTags(imgs, base) ==
    IF imgs = << >> THEN << >>
    ELSE extractImgTag(Head(imgs), base) \o extractImgTags(Tail(imgs), base)

MinShortSide == 300

MinArea == 140000

AdSizes ==
    {<<728, 90>>, <<970, 90>>, <<970, 250>>, <<468, 60>>, <<320, 50>>,
     <<300, 50>>, <<300, 250>>, <<336, 280>>, <<300, 600>>, <<160, 600>>,
     <<120, 600>>, <<250, 250>>, <<200, 200>>, <<180, 150>>, <<234, 60>>,
     <<120, 240>>, <<88, 31>>}

\* |w/h - r| <= 0.09 for a whitelist ratio r, here in thousandths
NearWhitelistRatio(w, h) ==
    \E r \in {1333, 1500, 1600, 1667, 1777, 1850, 2000} :
        1000 * w - r * h <= 90 * h /\ r * h - 1000 * w <= 90 * h

\* 0.5 <= w/h <= 2.6, or within 0.09 of a whitelist ratio
hasGoodAspectRatio(w, h) ==
    IF w = 0 \/ h = 0 THEN FALSE
    ELSE (2 * w >= h /\ 5 * w <= 13 * h) \/ NearWhitelistRatio(w, h)

\* a faulty filter that leaves the ad sizes in: C15 must not hold for it
passesFiltersNoAdSize(c) ==
    IF c.Width > 0 /\ c.Height > 0
    THEN LET shortSide == Min(c.Width, c.Height)
             area == c.Width * c.Height
         IN  /\ shortSide >= MinShortSide
             /\ area >= MinArea
             /\ hasGoodAspectRatio(c.Width, c.Height)
             /\ ~(c.BadHint /\ ~(shortSide >= 400 /\ area >= 300000))
    ELSE ~c.BadHint

passesFilters(c) ==
    IF c.Width > 0 /\ c.Height > 0
    THEN LET shortSide == Min(c.Width, c.Height)
             area == c.Width * c.Height
         IN  /\ shortSide >= MinShortSide
             /\ area >= MinArea
             /\ hasGoodAspectRatio(c.Width, c.Height)
             /\ <<c.Width, c.Height>> \notin AdSizes
             /\ ~(c.BadHint /\ ~(shortSide >= 400 /\ area >= 300000))
    ELSE ~c.BadHint

\* the log10 helper of images.go: it counts how often x can be divided by
\* 10 before it is below 10, so it is the whole part of the logarithm
RECURSIVE log10(_)
log10(x) == IF x < 10 THEN 0 ELSE 1 + log10(x \div 10)

\* article boost, og boost, ratio bonus, area bonus
calculateScore(c) ==
    (IF c.InArticle THEN 2 ELSE 0) + (IF c.Source = "og" THEN 1 ELSE 0)
    + (IF c.Width > 0 /\ c.Height > 0 /\ NearWhitelistRatio(c.Width, c.Height)
       THEN 1 ELSE 0)
    + (IF c.Width * c.Height > 0 THEN log10(Max(1, c.Width * c.Height)) ELSE 0)

\* the swap condition of sortCandidates: b goes before a
SortsAfter(a, b) ==
    \/ calculateScore(a) < calculateScore(b)
    \/ /\ calculateScore(a) = calculateScore(b)
       /\ a.Width * a.Height < b.Width * b.Height

\* the comparator of the legacy scraper, b.score - a.score || b.area - a.area,
\* with score = boosts + Math.log10(max(1, area)): p + log10(x) < q + log10(y)
\* is 10^p * x < 10^q * y, here in whole numbers
LegacySortsAfter(a, b) ==
    LET Area(c) == IF c.Width > 0 /\ c.Height > 0 THEN c.Width * c.Height ELSE 0
        Boost(c) == calculateScore(c) - (IF Area(c) > 0 THEN log10(Area(c)) ELSE 0)
        Pow10(k) == CASE k = 0 -> 1 [] k = 1 -> 10 [] k = 2 -> 100
                      [] k = 3 -> 1000 [] k = 4 -> 10000
        ScoreLess(c, d) ==
            LET k == Boost(c) - Boost(d)
            IN  IF k >= 0
                THEN Max(1, Area(c)) <= (Max(1, Area(d)) - 1) \div Pow10(k)
                ELSE Max(1, Area(c)) \div Pow10(0 - k) < Max(1, Area(d))
    IN  \/ ScoreLess(a, b)
        \/ ~ScoreLess(b, a) /\ Area(a) < Area(b)

\* a faulty sort that leaves the candidates in document order: C21 must not
\* hold for it
sortCandidatesKeepsOrder(cs) == cs

\* the bubble sort swaps only on a strict comparison, so equal candidates
\* keep their order
RECURSIVE sortCandidates(_)
sortCandidates(cs) ==
    IF cs = << >> THEN << >>
    ELSE LET best == CHOOSE i \in 1..Len(cs) :
                         /\ \A j \in 1..Len(cs) : ~SortsAfter(cs[i], cs[j])
                         /\ \A j \in 1..(i - 1) : SortsAfter(cs[j], cs[i])
         IN  <<cs[best]>> \o
             sortCandidates([j \in 1..(Len(cs) - 1) |->
                                 IF j < best THEN cs[j] ELSE cs[j + 1]])

ImageLimit == 3

\* the first candidate of each URL, in order, up to the limit
RECURSIVE getTopImages(_, _, _)
getTopImages(cs, limit, taken) ==
    IF cs = << >> \/ Len(taken) >= limit THEN taken
    ELSE IF \E i \in 1..Len(taken) : taken[i].URL = Head(cs).URL
         THEN getTopImages(Tail(cs), limit, taken)
         ELSE getTopImages(Tail(cs), limit, Append(taken, Head(cs)))

\* the candidates promoted by the Go service; whichever goroutine sends first
\* is collected first
ExtractImagesFromHTML(html, base, ogFirst) ==
    LET og == extractOgImage(html.og, base)
        imgs == extractImgTags(html.imgs, base)
        all == IF ogFirst THEN og \o imgs ELSE imgs \o og
    IN  getTopImages(sortCandidates(SelectSeq(all, passesFilters)), ImageLimit, << >>)

\* the URLs the Lambda scraper adds for the img tags
RECURSIVE LambdaImgURLs(_, _)
LambdaImgURLs(imgs, base) ==
    IF imgs = << >> THEN << >>
    ELSE LET u == toAbsoluteURL(Head(imgs).src, base)
             keep == /\ Head(imgs).src # << >>
                     /\ ImageExtMatches(u, GoImageExts \ {".avif"})
                     /\ ~\E i \in 1..Len(u) : LowerWord(u[i]) \in
                              {"sprite", "icon", "favicon", "logo", "avatar",
                               "emoji", "placeholder"}
         IN  (IF keep THEN <<u>> ELSE << >>) \o LambdaImgURLs(Tail(imgs), base)

\* a Set keeps the first insertion of each value
RECURSIVE SetOrder(_, _)
SetOrder(us, kept) ==
    IF us = << >> THEN kept
    ELSE IF \E i \in 1..Len(kept) : kept[i] = Head(us)
         THEN SetOrder(Tail(us), kept)
         ELSE SetOrder(Tail(us), Append(kept, Head(us)))

\* extractImagesFromHtml of the Lambda scraper
extractImagesFromHtml(html, base) ==
    LET og == IF html.og.content = << >> THEN << >>
              ELSE << toAbsoluteURL(html.og.content, base) >>
        urls == SetOrder(og \o LambdaImgURLs(html.imgs, base), << >>)
    IN  SubSeq(urls, 1, Min(Len(urls), ImageLimit))

\* the og:image meta tags and img tags of the pages drawn
OgTags ==
    { [content |-> << >>, width |-> 0, height |-> 0],
      [content |-> <<"https://cdn.example.com", "/og/", "1200x630", "/cover", ".jpg">>,
       width |-> 0, height |-> 0],
      [content |-> <<"https://cdn.example.com", "/photo">>, width |-> 0, height |-> 0],
      [content |-> <<"https://cdn.example.com", "/og/", "square", ".png">>,
       width |-> 1000, height |-> 1000] }

ImgTags ==
    { [src |-> <<"https://cdn.example.com", "/img/", "hero", ".jpg">>,
       width |-> 1600, height |-> 900, inArticle |-> TRUE, words |-> {"img"}],
      [src |-> <<"/img/", "side", ".png", "?", "v=2">>,
       width |-> 0, height |-> 0, inArticle |-> FALSE, words |-> {"img"}],
      [src |-> <<"https://cdn.example.com", "/render", "?", "file=a", ".jpg">>,
       width |-> 500, height |-> 700, inArticle |-> TRUE, words |-> {"img"}],
      [src |-> <<"/img/", "tall", ".webp">>,
       width |-> 300, height |-> 600, inArticle |-> TRUE, words |-> {"img"}],
      [src |-> <<"/img/", "Logo", ".avif">>,
       width |-> 500, height |-> 700, inArticle |-> FALSE, words |-> {"img"}],
      [src |-> <<"/img/", "badge", ".png">>,
       width |-> 350, height |-> 450, inArticle |-> TRUE, words |-> {"img", "promo"}],
      [src |-> <<"/img/", "strip", ".gif">>,
       width |-> 1200, height |-> 300, inArticle |-> TRUE, words |-> {"img"}],
      [src |-> <<"/img/", "wide", ".jpg">>,
       width |-> 1250, height |-> 800, inArticle |-> TRUE, words |-> {"img"}] }

MaxImgTags == 3

RECURSIVE SeqsUpTo(_, _)
SeqsUpTo(S, n) ==
    IF n = 0 THEN {<< >>}
    ELSE LET shorter == SeqsUpTo(S, n - 1)
         IN  shorter \cup {Append(s, x) : s \in {t \in shorter : Len(t) = n - 1}, x \in S}

\* image selection of the Go service: images are the URLs of the promoted
\* candidates
SelectImagesGo ==
    /\ call.fn = "images" /\ call.variant = "go" /\ ret = NoRet
    /\ \E ogFirst \in BOOLEAN :
          LET top == ExtractImagesFromHTML(call.html, BaseURL, ogFirst)
          IN  ret' = [fn |-> "images", promoted |-> top,
                      images |-> [i \in 1..Len(top) |-> top[i].URL]]
    /\ UNCHANGED <<js, call>>
    /\ UNCHANGED GoVars

\* image selection of the Lambda scraper, which builds no candidates
SelectImagesLambda ==
    /\ call.fn = "images" /\ call.variant = "lambda" /\ ret = NoRet
    /\ ret' = [fn |-> "images", promoted |-> << >>,
               images |-> extractImagesFromHtml(call.html, BaseURL)]
    /\ UNCHANGED <<js, call>>
    /\ UNCHANGED GoVars

(***************************************************************************)
(* Text cleaning.  A text is a sequence of characters; "W" stands for a    *)
(* word of 21 letters, "L" for a word of 50 letters and "w" for a word of   *)
(* one letter.                                                             *)
(***************************************************************************)

\* strings.ReplaceAll: left to right, over non-overlapping occurrences
RECURSIVE ReplaceAll(_, _, _)
ReplaceAll(text, old, new) ==
    IF Len(text) < Len(old) THEN text
    ELSE IF SubSeq(text, 1, Len(old)) = old
         THEN new \o ReplaceAll(SubSeq(text, Len(old) + 1, Len(text)), old, new)
         ELSE <<Head(text)>> \o ReplaceAll(Tail(text), old, new)

\* strings.TrimSpace
RECURSIVE TrimSpace(_)
TrimSpace(text) ==
    IF text = << >> THEN text
    ELSE IF Head(text) \in {" ", "\n"} THEN TrimSpace(Tail(text))
    ELSE IF text[Len(text)] \in {" ", "\n"}
         THEN TrimSpace(SubSeq(text, 1, Len(text) - 1))
    ELSE text

CleanWhitespace(text) ==
    IF text = << >> THEN << >>
    ELSE TrimSpace(ReplaceAll(ReplaceAll(text, <<"\n", "\n", "\n">>, <<"\n", "\n">>),
                              <<" ", " ">>, <<" ">>))

\* split into lines, trim each, keep the empty ones and those longer than 20
\* characters, join, clean
CleanTextContent(text) ==
    LET RECURSIVE Split(_)
        Split(t) ==
            IF \A i \in 1..Len(t) : t[i] # "\n" THEN <<t>>
            ELSE LET i == CHOOSE k \in 1..Len(t) :
                              t[k] = "\n" /\ \A m \in 1..(k - 1) : t[m] # "\n"
                 IN  <<SubSeq(t, 1, i - 1)>> \o Split(SubSeq(t, i + 1, Len(t)))
        RECURSIVE Bytes(_)
        Bytes(t) ==
            IF t = << >> THEN 0
            ELSE (CASE Head(t) = "W" -> 21 [] Head(t) = "L" -> 50 [] OTHER -> 1)
                 + Bytes(Tail(t))
        RECURSIVE Join(_)
        Join(ls) ==
            IF ls = << >> THEN << >>
            ELSE IF Len(ls) = 1 THEN ls[1]
            ELSE ls[1] \o <<"\n">> \o Join(Tail(ls))
        Keep(l) == Bytes(l) = 0 \/ Bytes(l) > 20
        lines == Split(text)
        trimmed == [i \in 1..Len(lines) |-> TrimSpace(lines[i])]
    IN  IF text = << >> THEN << >>
        ELSE CleanWhitespace(Join(SelectSeq(trimmed, Keep)))

\* the strict policy drops markup and leaves the characters of a text
\* without markup as they are; then the whitespace is cleaned once more
sanitizeText(text) ==
    IF text = << >> THEN << >>
    ELSE CleanWhitespace(SelectSeq(text, LAMBDA c : c \notin {"<", ">"}))

MaxTextLen == 7

\* convertHTMLToStructuredText on the text collected from the elements
CleanContent ==
    /\ call.fn = "content" /\ ret = NoRet
    /\ ret' = [fn |-> "content",
               content |-> sanitizeText(CleanTextContent(call.text))]
    /\ UNCHANGED <<js, call>>
    /\ UNCHANGED GoVars

\* the text of the elements of a selection, in document order; an element is
\* [tag, text] and text is what s.Text() gives for it
ExtractTextFromElements(els) ==
    LET RECURSIVE Write(_, _)
        Write(content, i) ==
            IF i > Len(els) THEN content
            ELSE LET text == TrimSpace(els[i].text)
                 IN  IF text = << >> THEN Write(content, i + 1)
                     ELSE IF els[i].tag \in {"h1", "h2", "h3", "h4", "h5", "h6"}
                     THEN Write((IF content # << >> THEN content \o <<"\n", "\n">>
                                 ELSE content) \o text \o <<"\n">>, i + 1)
                     ELSE IF els[i].tag \in {"p", "li", "blockquote"}
                     THEN Write((IF content # << >> THEN content \o <<"\n">>
                                 ELSE content) \o text, i + 1)
                     ELSE Write(content, i + 1)
    IN  Write(<< >>, 1)

MinDescriptionLen == 50
MaxDescriptionLen == 300

\* the first <p> of the document, when its trimmed text has a suitable length
ExtractDescriptionFromParagraph(els) ==
    LET RECURSIVE Bytes(_)
        Bytes(t) ==
            IF t = << >> THEN 0
            ELSE (CASE Head(t) = "W" -> 21 [] Head(t) = "L" -> 50 [] OTHER -> 1)
                 + Bytes(Tail(t))
        ps == SelectSeq(els, LAMBDA e : e.tag = "p")
        text == IF ps = << >> THEN << >> ELSE TrimSpace(ps[1].text)
    IN  IF Bytes(text) > MinDescriptionLen /\ Bytes(text) < MaxDescriptionLen
        THEN text ELSE << >>

MaxElements == 3

\* extractDescription and extractContent on a parsed document: meta is the
\* first description found in the meta tags (empty when there is none), els
\* are the elements of the content selection
ExtractArticle ==
    /\ call.fn = "article" /\ ret = NoRet
    /\ LET structured == ExtractTextFromElements(call.els)
           RECURSIVE AllText(_)
           AllText(es) == IF es = << >> THEN << >>
                          ELSE Head(es).text \o AllText(Tail(es))
           content == IF structured = << >> THEN TrimSpace(AllText(call.els))
                      ELSE structured
       IN  ret' = [fn |-> "article",
                   description |->
                       IF call.meta # << >> THEN sanitizeText(call.meta)
                       ELSE sanitizeText(ExtractDescriptionFromParagraph(call.els)),
                   content |-> sanitizeText(CleanTextContent(content))]
    /\ UNCHANGED <<js, call>>
    /\ UNCHANGED GoVars

\* the URLs alternates are generated for: no path, the root path, a query
\* that already asks for AMP, a mobile AMP URL, and an article URL
AlternateInputs ==
    { [scheme |-> "https", host |-> <<"example", "com">>, port |-> "",
       path |-> p, query |-> q] :
          p \in {<< >>, <<"">>, <<"story">>, <<"amp", "story">>, <<"story", "amp">>},
          q \in {<< >>, << [k |-> "outputType", v |-> "amp"] >>,
                 << [k |-> "page", v |-> "2"], [k |-> "id", v |-> "7"] >>} }
    \cup InputURLs

GenerateAlternates ==
    /\ call.fn = "alternates" /\ ret = NoRet
    /\ ret' = [fn |-> "alternates", alternates |-> GenerateAlternateURLs(call.url)]
    /\ UNCHANGED <<js, call>>
    /\ UNCHANGED GoVars

\* looksLikeCfBlock(html) of the legacy scraper, called without a title: the
\* four body literals, compared in lower case
looksLikeCfBlock(html) ==
    \E k \in 2..Len(CfBlockRegex) : StrContains(ToLower(html), CfBlockRegex[k])

\* the navigation of the legacy scrapeWithPuppeteer over the results of its
\* page.goto calls: a goto that throws for the primary URL ends the function,
\* one that throws for an alternate leaves resp and html as they were.  The
\* result names the response whose document was extracted and how many
\* alternates were navigated to.
scrapeWithPuppeteer(primary, alts) ==
    LET RECURSIVE Loop(_, _)
        Loop(resp, i) ==
            IF i > Len(alts) THEN [resp |-> resp, tried |-> Len(alts)]
            ELSE IF alts[i].threw THEN Loop(resp, i + 1)
            ELSE IF alts[i].status < 400 /\ ~looksLikeCfBlock(alts[i].page)
                 THEN [resp |-> alts[i], tried |-> i]
            ELSE Loop(alts[i], i + 1)
        isBlockedNow == primary.status = 403 \/ looksLikeCfBlock(primary.page)
        end == IF isBlockedNow THEN Loop(primary, 1) ELSE [resp |-> primary, tried |-> 0]
    IN  IF primary.threw
        THEN [ok |-> FALSE, cause |-> "navigation", doc |-> primary, tried |-> 0]
        ELSE IF looksLikeCfBlock(end.resp.page) \/ end.resp.status = 403
        THEN [ok |-> FALSE, cause |-> "CF_BLOCKED_BROWSER", doc |-> end.resp,
              tried |-> end.tried]
        ELSE [ok |-> TRUE, cause |-> "none", doc |-> end.resp, tried |-> end.tried]

\* the browser phase of the legacy scraper for a URL with two alternates
BrowserNavigate ==
    /\ call.fn = "navigate" /\ ret = NoRet
    /\ ret' = [fn |-> "navigate", out |-> scrapeWithPuppeteer(call.primary, call.alts)]
    /\ UNCHANGED <<js, call>>
    /\ UNCHANGED GoVars

\* the verdict of each phase's challenge detector on one document
DetectChallenge ==
    /\ call.fn = "detect" /\ ret = NoRet
    /\ ret' = [fn |-> "detect", http |-> HTTPLooksLikeCFBlock(call.html),
               browser |-> BrowserLooksLikeCFBlock(call.html)]
    /\ UNCHANGED <<js, call>>
    /\ UNCHANGED GoVars

(***************************************************************************)
(* Calls of the pure functions, each on one drawn input                    *)
(***************************************************************************)

InitCalls ==
    /\ GoQuiet
    /\ js = NoJS
    /\ ret = NoRet
    /\ \/ call \in {[fn |-> "images", variant |-> v,
                      html |-> [og |-> o, imgs |-> i]] :
                       v \in {"go", "lambda"}, o \in OgTags,
                       i \in SeqsUpTo(ImgTags, MaxImgTags)}
       \/ call \in {[fn |-> "content", text |-> t] :
                       t \in SeqsUpTo({"W", "w", " ", "\n"}, MaxTextLen)}
       \/ call \in {[fn |-> "alternates", url |-> u] : u \in AlternateInputs}
       \/ LET sixL == <<"L", "L", "L", "L", "L", "L">>
              texts == {<< >>, <<"w">>, <<"W">>, <<"L">>, <<" ", "L", "w">>, sixL}
              elems == [tag : {"h2", "p"}, text : texts]
                           \cup {[tag |-> "div", text |-> <<"W">>]}
          IN  call \in {[fn |-> "article", meta |-> m, els |-> e] :
                            m \in {<< >>, <<"w", " ", "w">>},
                            e \in SeqsUpTo(elems, MaxElements)}
       \/ LET gotos == {[threw |-> TRUE, status |-> 0, page |-> << >>]}
                        \cup [threw : {FALSE}, status : {200, 403, 404},
                              page : {PageArticle, PageChallenge}]
          IN  call \in {[fn |-> "navigate", primary |-> g, alts |-> <<a, b>>] :
                            g \in gotos, a \in gotos, b \in gotos}
       \/ call \in {[fn |-> "detect", html |-> h] :
                       h \in {PageArticle, PageMention, PageChallenge,
                              <<"<title>", "Just a moment", "</title>", "<p>", "W", "</p>">>,
                              <<"<title>", "Attention Required", "</title>">>,
                              <<"<p>", "HTTP ", "4", "0", "3", " is a status code", "</p>">>,
                              <<"<p>", "Why have I been blocked?", "</p>">>}}

SpecCalls ==
    InitCalls /\ [][SelectImagesGo \/ SelectImagesLambda \/ CleanContent
                      \/ GenerateAlternates \/ BrowserNavigate
                      \/ ExtractArticle \/ DetectChallenge]_vars

\* C14: image selection returns at most three entries, no two equal, each an
\* absolute URL whose part before any "?" or "#" ends in an allowed image
\* extension.
C14_ImagesAbsoluteWithExtension ==
    ret.fn = "images" =>
        /\ Len(ret.images) <= 3
        /\ \A i, j \in 1..Len(ret.images) : i # j => ret.images[i] # ret.images[j]
        /\ \A i \in 1..Len(ret.images) :
              LET u == ret.images[i]
                  cut == {k \in 1..Len(u) : u[k] \in {"?", "#"}}
                  last == IF cut = {} THEN Len(u)
                          ELSE (CHOOSE k \in cut : \A m \in cut : k <= m) - 1
              IN  /\ u[1] \in Origins
                  /\ last >= 1
                  /\ u[last] \in {".jpg", ".jpeg", ".png", ".gif", ".webp", ".avif"}

C16_NoWhitespaceRuns ==
    ret.fn = "content" =>
        /\ ~\E i \in 1..(Len(ret.content) - 2) :
              ret.content[i] = "\n" /\ ret.content[i + 1] = "\n" /\ ret.content[i + 2] = "\n"
        /\ ~\E i \in 1..(Len(ret.content) - 1) :
              ret.content[i] = " " /\ ret.content[i + 1] = " "

\* C17: alternate-URL generation returns at most four URLs, no two equal,
\* and a rule whose condition already holds for the input adds nothing: no
\* /amp-prefixed copy of a path under /amp/, no /amp-suffixed copy of a path
\* ending in /amp, no outputType=amp copy of a URL that carries it, no m.
\* copy of an m. host.
C17_AlternatesDistinctRulesSkip ==
    ret.fn = "alternates" =>
        LET u == call.url
            alts == ret.alternates
        IN  /\ Len(alts) <= 4
            /\ \A i, j \in 1..Len(alts) : i # j => alts[i] # alts[j]
            /\ \A i \in 1..Len(alts) :
                  /\ (Len(u.path) >= 2 /\ u.path[1] = "amp") =>
                        alts[i].path # <<"amp">> \o u.path
                  /\ (Len(u.path) >= 1 /\ u.path[Len(u.path)] = "amp") =>
                        alts[i].path # u.path \o <<"amp">>
                  /\ (\E n \in 1..Len(u.query) :
                          u.query[n] = [k |-> "outputType", v |-> "amp"]) =>
                        ~(alts[i].host = u.host /\ alts[i].path = u.path)
                  /\ (Len(u.host) >= 2 /\ u.host[1] = "m") =>
                        alts[i].host # <<"m">> \o u.host

\* C18: a url parameter that is not a valid absolute http or https URL is
\* answered with 400 and no fetch or browser launch is started for it.
C18_InvalidURLRejected ==
    (URLParseFails(req.url) \/ req.url.scheme \notin {"http", "https"}) =>
        /\ pc \in {"start", "done"}
        /\ ~hist.browserStarted
        /\ pc = "done" => response.status = 400

\* C20: when the browser phase begins its budget is at most 40 s and at most
\* the time left to the request deadline less 3 s, and it does not begin when
\* that leaves nothing.
C20_BrowserBudgetKeepsMargin ==
    pc = "setup" =>
        /\ main.browserDeadline - now <= 40000
        /\ main.browserDeadline - now <= (main.reqDeadline - now) - 3000
        /\ main.browserDeadline - now > 0

\* C21: among the returned candidates, one with a score and an area at least
\* those of another, one of them strictly greater, comes first; and no
\* candidate that passed the filters and whose URL is not returned has a
\* score and an area at least those of a returned one with one strictly
\* greater.
C21_DominatingCandidateFirst ==
    (ret.fn = "images" /\ call.variant = "go") =>
        LET Area(c) == c.Width * c.Height
            Dominates(a, b) ==
                /\ calculateScore(a) >= calculateScore(b)
                /\ Area(a) >= Area(b)
                /\ calculateScore(a) > calculateScore(b) \/ Area(a) > Area(b)
            all == extractOgImage(call.html.og, BaseURL)
                   \o extractImgTags(call.html.imgs, BaseURL)
            top == ret.promoted
        IN  /\ \A i, j \in 1..Len(top) : Dominates(top[i], top[j]) => i < j
            /\ \A n \in 1..Len(all) :
                  (/\ passesFilters(all[n])
                   /\ \A i \in 1..Len(top) : top[i].URL # all[n].URL) =>
                      \A i \in 1..Len(top) : ~Dominates(all[n], top[i])

\* C21 happens: three URLs were returned, the page lists a lower-scored image
\* before a higher-scored one, and a fourth candidate that passed the filters
\* was left out
C21_Witness ==
    /\ ret.fn = "images" /\ call.variant = "go"
    /\ Len(ret.promoted) = 3
    /\ \E i, j \in 1..Len(call.html.imgs) :
          /\ i < j
          /\ \E a, b \in 1..3 :
                /\ a < b
                /\ ret.promoted[a].URL = toAbsoluteURL(call.html.imgs[j].src, BaseURL)
                /\ ret.promoted[b].URL = toAbsoluteURL(call.html.imgs[i].src, BaseURL)
                /\ calculateScore(ret.promoted[a]) > calculateScore(ret.promoted[b])
    /\ \E n \in 1..Len(call.html.imgs) :
          LET c == extractImgTag(call.html.imgs[n], BaseURL)
          IN  /\ c # << >>
              /\ passesFilters(c[1])
              /\ \A i \in 1..3 : ret.promoted[i].URL # c[1].URL

\* C27: any two candidates that pass the filters are ordered by the Go
\* extractor as by the score 2*[in article] + [og] + [whitelisted aspect] +
\* log10(max(1, area)) with ties broken by the larger area, the order of the
\* legacy scraper.
C27_GoOrderIsSpecifiedOrder ==
    (ret.fn = "images" /\ call.variant = "go") =>
        LET all == extractOgImage(call.html.og, BaseURL)
                   \o extractImgTags(call.html.imgs, BaseURL)
        IN  \A i, j \in 1..Len(all) :
                (passesFilters(all[i]) /\ passesFilters(all[j])) =>
                    (SortsAfter(all[i], all[j]) <=> LegacySortsAfter(all[i], all[j]))

\* C28: the list returned for a page is the same whichever of the two
\* goroutines delivers its candidates first.
C28_SameListUnderEveryInterleaving ==
    (ret.fn = "images" /\ call.variant = "go") =>
        \A ogFirst \in BOOLEAN :
            ret.promoted = ExtractImagesFromHTML(call.html, BaseURL, ogFirst)

\* C22: when the alternate race returns, with a winner or with a failure, no
\* alternate fetch it started is still in flight.
C22_NoFetchInFlightAfterRace ==
    hist.raceReturned => hist.inFlightAtReturn = 0

\* C23: in the browser phase the alternates are tried when the primary
\* navigation is detected as a challenge and also when it fails.
C23_AlternatesAfterFailedPrimary ==
    (/\ ret.fn = "navigate"
     /\ \/ call.primary.threw
        \/ call.primary.status = 403
        \/ looksLikeCfBlock(call.primary.page)) => ret.out.tried >= 1

\* C29: the browser phase succeeds only with the document of a navigation
\* that completed with a status below 400 and is not a challenge.
C29_SuccessOnlyFromGoodDocument ==
    (ret.fn = "navigate" /\ ret.out.ok) =>
        /\ ~ret.out.doc.threw
        /\ ret.out.doc.status < 400
        /\ ~looksLikeCfBlock(ret.out.doc.page)


\* C24: structured text conversion keeps the text of every non-empty heading
\* and paragraph of the container, whatever its length: each such text,
\* trimmed, occurs in the returned content.
C24_EveryElementTextKept ==
    ret.fn = "article" =>
        \A i \in 1..Len(call.els) :
            (call.els[i].tag \in {"h2", "p"} /\ TrimSpace(call.els[i].text) # << >>)
                => StrContains(ret.content, TrimSpace(call.els[i].text))

\* C25: without a description in the meta tags, the description is the text
\* of the first <p> in document order whose length lies in the closed range
\* [50, 300]; paragraphs outside the range are skipped, 50 and 300 are
\* accepted; it is empty when no paragraph is suitable.
C25_DescriptionFromFirstSuitableParagraph ==
    (ret.fn = "article" /\ call.meta = << >>) =>
        LET RECURSIVE Chars(_)
            Chars(t) ==
                IF t = << >> THEN 0
                ELSE (CASE Head(t) = "W" -> 21 [] Head(t) = "L" -> 50 [] OTHER -> 1)
                     + Chars(Tail(t))
            Suitable(e) == /\ e.tag = "p"
                           /\ Chars(TrimSpace(e.text)) >= 50
                           /\ Chars(TrimSpace(e.text)) <= 300
            ps == SelectSeq(call.els, Suitable)
        IN  ret.description = IF ps = << >> THEN << >> ELSE TrimSpace(ps[1].text)



\* C26: for the same HTML the HTTP phase and the browser phase give the same
\* verdict, and the verdict is "challenge" exactly when the HTML, compared
\* without regard to case, contains a body marker or has the title "Just a
\* moment" or "Attention Required".
C26_SameVerdictInBothPhases ==
    ret.fn = "detect" =>
        LET lower == ToLower(call.html)
            marker == \E k \in 1..Len(CfBlockRegex) : StrContains(lower, CfBlockRegex[k])
            title == \E t \in {"just a moment", "attention required"} :
                         StrContains(lower, <<"<title>", t>>)
        IN  /\ ret.http = ret.browser
            /\ ret.http = (marker \/ title)



(***************************************************************************)
(* The Next.js handler with the in-process cache.  js holds the module     *)
(* state (cache, clock, timer) and two handler invocations that may run    *)
(* interleaved; variant "interval" sweeps the cache from a timer, variant  *)
(* "ondemand" sweeps it at the start of each request.                      *)
(***************************************************************************)

CACHE_TTL == 3600000
MaxRequests == 3
MaxClock == 3600002

InitCache ==
    /\ GoQuiet
    /\ call = NoCall
    /\ ret = NoRet
    /\ js \in {[variant |-> v, clock |-> 0, lastSweep |-> 0, served |-> 0,
                cache |-> [u \in {"a", "b"} |->
                              [present |-> FALSE, data |-> [page |-> "", ver |-> 0],
                               timestamp |-> 0]],
                h |-> [i \in 1..2 |->
                          [pc |-> "idle", url |-> "", attempt |-> 0, launches |-> 0,
                           status |-> 0, data |-> [page |-> "", ver |-> 0],
                           fromCache |-> FALSE, stamp |-> 0, at |-> 0]]] :
                  v \in {"interval", "ondemand"}}

\* Date.now() moves on while nothing else runs
Tick ==
    /\ "cache" \in DOMAIN js
    /\ \E d \in {1799999, 1800001} :
          /\ js.clock + d <= MaxClock
          /\ js' = [js EXCEPT !.clock = @ + d]
    /\ UNCHANGED <<call, ret>>
    /\ UNCHANGED GoVars

\* the setInterval callback: every five minutes, delete the entries older
\* than CACHE_TTL
CleanupInterval ==
    /\ "cache" \in DOMAIN js
    /\ js.variant = "interval"
    /\ js.clock - js.lastSweep >= 300000
    /\ js' = [js EXCEPT
                !.lastSweep = js.clock,
                !.cache = [u \in DOMAIN @ |->
                              IF @[u].present /\ js.clock - @[u].timestamp > CACHE_TTL
                              THEN [@[u] EXCEPT !.present = FALSE] ELSE @[u]]]
    /\ UNCHANGED <<call, ret>>
    /\ UNCHANGED GoVars

\* handler up to its first await: key validation, url parameter, sweep of
\* the cache (variant "ondemand"), cache lookup
HandlerBeginNoTTL(i) ==
    /\ "cache" \in DOMAIN js
    /\ js.h[i].pc \in {"idle", "done"}
    /\ js.served < MaxRequests
    /\ \E key \in {"valid", "invalid", "unset"}, url \in {"", "a", "b"} :
          LET fresh == [pc |-> "done", url |-> url, attempt |-> 0, launches |-> 0,
                        status |-> 0, data |-> [page |-> "", ver |-> 0],
                        fromCache |-> FALSE, stamp |-> 0, at |-> js.clock]
              swept == IF js.variant = "ondemand"
                       THEN [u \in DOMAIN js.cache |->
                                IF /\ js.cache[u].present
                                   /\ js.clock - js.cache[u].timestamp > CACHE_TTL
                                THEN [js.cache[u] EXCEPT !.present = FALSE]
                                ELSE js.cache[u]]
                       ELSE js.cache
          IN  js' = [js EXCEPT
                 !.served = @ + 1,
                 !.cache = IF key = "valid" /\ url # "" THEN swept ELSE @,
                 !.h[i] =
                    IF key = "unset" THEN [fresh EXCEPT !.status = 500]
                    ELSE IF key = "invalid" THEN [fresh EXCEPT !.status = 401]
                    ELSE IF url = "" THEN [fresh EXCEPT !.status = 400]
                    ELSE IF swept[url].present
                    THEN [fresh EXCEPT !.status = 200, !.data = swept[url].data,
                                       !.fromCache = TRUE,
                                       !.stamp = swept[url].timestamp]
                    ELSE [fresh EXCEPT !.pc = "scraping", !.attempt = 1]]
    /\ UNCHANGED <<call, ret>>
    /\ UNCHANGED GoVars

HandlerBegin(i) ==
    /\ "cache" \in DOMAIN js
    /\ js.h[i].pc \in {"idle", "done"}
    /\ js.served < MaxRequests
    /\ \E key \in {"valid", "invalid", "unset"}, url \in {"", "a", "b"} :
          LET fresh == [pc |-> "done", url |-> url, attempt |-> 0, launches |-> 0,
                        status |-> 0, data |-> [page |-> "", ver |-> 0],
                        fromCache |-> FALSE, stamp |-> 0, at |-> js.clock]
              swept == IF js.variant = "ondemand"
                       THEN [u \in DOMAIN js.cache |->
                                IF /\ js.cache[u].present
                                   /\ js.clock - js.cache[u].timestamp > CACHE_TTL
                                THEN [js.cache[u] EXCEPT !.present = FALSE]
                                ELSE js.cache[u]]
                       ELSE js.cache
          IN  js' = [js EXCEPT
                 !.served = @ + 1,
                 !.cache = IF key = "valid" /\ url # "" THEN swept ELSE @,
                 !.h[i] =
                    IF key = "unset" THEN [fresh EXCEPT !.status = 500]
                    ELSE IF key = "invalid" THEN [fresh EXCEPT !.status = 401]
                    ELSE IF url = "" THEN [fresh EXCEPT !.status = 400]
                    ELSE IF /\ swept[url].present
                            /\ js.clock - swept[url].timestamp < CACHE_TTL
                    THEN [fresh EXCEPT !.status = 200, !.data = swept[url].data,
                                       !.fromCache = TRUE,
                                       !.stamp = swept[url].timestamp]
                    ELSE [fresh EXCEPT !.pc = "scraping", !.attempt = 1]]
    /\ UNCHANGED <<call, ret>>
    /\ UNCHANGED GoVars

\* one pass of the retry loop, at the moment scrapeWebsite settles: a
\* result is stored and returned; an error leads to the next attempt after
\* the backoff, or to status 500 after the last one.  The result is the
\* page of the URL as it is then; ver tells the results of a page apart.
ScrapeAttempt(i) ==
    /\ "cache" \in DOMAIN js
    /\ js.h[i].pc = "scraping"
    /\ \/ LET result == [page |-> js.h[i].url, ver |-> js.served]
          IN  js' = [js EXCEPT
                    !.cache[js.h[i].url] = [present |-> TRUE, data |-> result,
                                            timestamp |-> js.clock],
                    !.h[i] = [@ EXCEPT !.pc = "done", !.launches = @ + 1,
                                       !.status = 200, !.data = result,
                                       !.at = js.clock]]
       \/ js' = [js EXCEPT
                    !.h[i] = IF @.attempt < (IF js.variant = "interval" THEN 3 ELSE 2)
                             THEN [@ EXCEPT !.attempt = @ + 1, !.launches = @ + 1]
                             ELSE [@ EXCEPT !.pc = "done", !.launches = @ + 1,
                                            !.status = 500, !.at = js.clock]]
    /\ UNCHANGED <<call, ret>>
    /\ UNCHANGED GoVars

SpecCache ==
    InitCache /\ [][Tick \/ CleanupInterval \/ (\E i \in 1..2 : HandlerBegin(i))
                      \/ (\E i \in 1..2 : ScrapeAttempt(i))]_vars

\* C30: a response served from the cache carries the result of a successful
\* scrape of the requested URL that was stored less than CACHE_TTL before the
\* response, and its handler launched no browser; every cache entry holds
\* the result of a successful scrape of its own key, never an error.
C30_CacheServesFreshOwnResults ==
    "cache" \in DOMAIN js =>
        /\ \A i \in 1..2 :
              (js.h[i].pc = "done" /\ js.h[i].fromCache) =>
                  /\ js.h[i].status = 200
                  /\ js.h[i].data.page = js.h[i].url
                  /\ js.h[i].data.ver > 0
                  /\ js.h[i].stamp <= js.h[i].at
                  /\ js.h[i].at - js.h[i].stamp < CACHE_TTL
                  /\ js.h[i].launches = 0
        /\ \A u \in DOMAIN js.cache :
              js.cache[u].present =>
                  /\ js.cache[u].data.page = u
                  /\ js.cache[u].data.ver > 0
                  /\ js.cache[u].timestamp <= js.clock

\* a request answered from an entry stored just less than an hour before,
\* next to a request whose every scrape attempt failed
C30_Witness ==
    /\ "cache" \in DOMAIN js
    /\ \E i \in 1..2 :
          /\ js.h[i].pc = "done" /\ js.h[i].fromCache
          /\ js.h[i].at - js.h[i].stamp = 3599998
          /\ js.h[3 - i].pc = "done" /\ js.h[3 - i].status = 500
          /\ js.h[3 - i].url \in {"a", "b"}

====
